---- MODULE Spec2Model ----
(***************************************************************************)
(* A model of the chaoscope sensor core: the I2C device layer, the         *)
(* inertial (IMU) and magnetometer drivers with their calibration          *)
(* routines, the calibration program and the start-up of the main program. *)
(*                                                                         *)
(* Numbers.  The drivers compute with Python floats (IEEE-754 binary64)    *)
(* and numpy float32 arrays.  A float is modelled exactly, as the record   *)
(* [sgn, man, exp] standing for sgn * man * 2^exp, where man is the        *)
(* mantissa as a little-endian sequence of bits (man[1] is the lowest      *)
(* bit).  Every arithmetic operation computes the exact result and rounds  *)
(* it once to the precision of its type, to nearest, ties to even, as the  *)
(* hardware does.  Exponent range is not modelled: the values of this      *)
(* program stay far from overflow and from the subnormal range.  The sign  *)
(* of zero is not modelled.                                                *)
(***************************************************************************)
EXTENDS Integers, Sequences, FiniteSets, TLC

(***************************************************************************)
(* Natural numbers of any size, as little-endian bit sequences.            *)
(***************************************************************************)
Bit(a, i) == IF i <= Len(a) THEN a[i] ELSE 0

\* a without its leading (highest) zero bits
BTrim(a) ==
    IF \A i \in 1..Len(a) : a[i] = 0 THEN <<>>
    ELSE SubSeq(a, 1, CHOOSE i \in 1..Len(a) :
                          a[i] = 1 /\ \A j \in (i + 1)..Len(a) : a[j] = 0)

\* 0 <= n < 2^31
BFromNat(n) == BTrim([i \in 1..31 |-> (n \div 2^(i - 1)) % 2])

BShl(a, k) == IF a = <<>> THEN a ELSE [i \in 1..k |-> 0] \o a

\* The recursions below split the range of bit positions in two halves, so
\* that their depth is the logarithm of the number of bits.

\* Bits lo..hi of a + b + carry c: [s |-> the bits, c |-> the carry out]
RECURSIVE BAddRange(_, _, _, _, _)
BAddRange(a, b, lo, hi, c) ==
    IF lo = hi
    THEN LET t == Bit(a, lo) + Bit(b, lo) + c
         IN  [s |-> <<t % 2>>, c |-> t \div 2]
    ELSE LET mid == (lo + hi) \div 2
             L   == BAddRange(a, b, lo, mid, c)
             R   == BAddRange(a, b, mid + 1, hi, L.c)
         IN  [s |-> L.s \o R.s, c |-> R.c]

BAdd(a, b) ==
    LET n == IF Len(a) > Len(b) THEN Len(a) ELSE Len(b)
    IN  IF n = 0 THEN <<>>
        ELSE LET r == BAddRange(a, b, 1, n, 0)
             IN  IF r.c = 1 THEN r.s \o <<1>> ELSE r.s

\* Bits lo..hi of a - b - borrow c: [s |-> the bits, c |-> the borrow out]
RECURSIVE BSubRange(_, _, _, _, _)
BSubRange(a, b, lo, hi, c) ==
    IF lo = hi
    THEN LET t == Bit(a, lo) - Bit(b, lo) - c
         IN  [s |-> <<IF t < 0 THEN t + 2 ELSE t>>, c |-> IF t < 0 THEN 1 ELSE 0]
    ELSE LET mid == (lo + hi) \div 2
             L   == BSubRange(a, b, lo, mid, c)
             R   == BSubRange(a, b, mid + 1, hi, L.c)
         IN  [s |-> L.s \o R.s, c |-> R.c]

\* a - b for a >= b
BSub(a, b) == IF a = <<>> THEN a ELSE BTrim(BSubRange(a, b, 1, Len(a), 0).s)

\* -1, 0, 1 as a < b, a = b, a > b; a and b have no leading zero bit
BCmp(a, b) ==
    IF Len(a) > Len(b) THEN 1
    ELSE IF Len(a) < Len(b) THEN -1
    ELSE IF a = b THEN 0
    ELSE LET i == CHOOSE k \in 1..Len(a) :
                      a[k] # b[k] /\ \A j \in (k + 1)..Len(a) : a[j] = b[j]
         IN  IF a[i] > b[i] THEN 1 ELSE -1

\* a times the bits lo..hi of b, by shift and add
RECURSIVE BMulRange(_, _, _, _)
BMulRange(a, b, lo, hi) ==
    IF lo = hi THEN (IF b[lo] = 1 THEN BShl(a, lo - 1) ELSE <<>>)
    ELSE LET mid == (lo + hi) \div 2
         IN  BAdd(BMulRange(a, b, lo, mid), BMulRange(a, b, mid + 1, hi))

BMul(a, b) == IF a = <<>> \/ b = <<>> THEN <<>> ELSE BMulRange(a, b, 1, Len(b))

\* Long division of the bits hi..lo of a (highest first) by the small number
\* n, entered with the remainder r of the bits above hi:
\* [q |-> the quotient's bits hi..lo, highest first, r |-> the remainder].
\* The upper half is worked out first, as its remainder enters the lower.
RECURSIVE BDivRange(_, _, _, _, _)
BDivRange(a, n, hi, lo, r) ==
    IF hi = lo
    THEN LET t == 2 * r + a[hi]
         IN  [q |-> <<t \div n>>, r |-> t % n]
    ELSE LET mid == (lo + hi) \div 2
             U   == BDivRange(a, n, hi, mid + 1, r)
             L   == BDivRange(a, n, mid, lo, U.r)
         IN  [q |-> U.q \o L.q, r |-> L.r]

Reverse(s) == [i \in 1..Len(s) |-> s[Len(s) + 1 - i]]

\* [q |-> a \div n, r |-> a % n] for a small number n (2 * n < 2^31)
BDivSmall(a, n) ==
    IF a = <<>> THEN [q |-> <<>>, r |-> 0]
    ELSE LET d == BDivRange(a, n, Len(a), 1, 0)
         IN  [q |-> BTrim(Reverse(d.q)), r |-> d.r]

(***************************************************************************)
(* Floats.                                                                 *)
(***************************************************************************)
DoublePrec == 53
SinglePrec == 24

FZero == [sgn |-> 0, man |-> <<>>, exp |-> 0]

\* The number of zero bits below the lowest set bit of a # 0
LowZeros(a) == (CHOOSE i \in 1..Len(a) : a[i] = 1 /\ \A j \in 1..(i - 1) : a[j] = 0) - 1

\* The one record that stands for sgn * man * 2^exp: odd mantissa, no
\* leading zero bit
Canon(sgn, man, exp) ==
    LET m == BTrim(man)
    IN  IF m = <<>> \/ sgn = 0 THEN FZero
        ELSE LET z == LowZeros(m)
             IN  [sgn |-> sgn, man |-> SubSeq(m, z + 1, Len(m)), exp |-> exp + z]

\* sgn * (man + f) * 2^exp rounded to p bits, to nearest, ties to even,
\* where 0 <= f < 1 and sticky says f > 0
RoundTo(sgn, man, exp, sticky, p) ==
    LET m == BTrim(man)
        n == Len(m)
    IN  IF n <= p THEN Canon(sgn, m, exp)
        ELSE LET k     == n - p
                 kept  == SubSeq(m, k + 1, n)
                 guard == m[k]
                 rest  == sticky \/ \E i \in 1..(k - 1) : m[i] = 1
                 up    == guard = 1 /\ (rest \/ kept[1] = 1)
             IN  Canon(sgn, IF up THEN BAdd(kept, <<1>>) ELSE kept, exp + k)

FRound(x, p) == RoundTo(x.sgn, x.man, x.exp, FALSE, p)

FFromInt(n) ==
    IF n = 0 THEN FZero
    ELSE IF n < 0 THEN Canon(-1, BFromNat(-n), 0)
    ELSE Canon(1, BFromNat(n), 0)

FNeg(x) == [x EXCEPT !.sgn = -x.sgn]

\* x + y, exactly (not rounded)
ExactAdd(x, y) ==
    IF x.sgn = 0 THEN y
    ELSE IF y.sgn = 0 THEN x
    ELSE LET e  == IF x.exp < y.exp THEN x.exp ELSE y.exp
             mx == BShl(x.man, x.exp - e)
             my == BShl(y.man, y.exp - e)
         IN  IF x.sgn = y.sgn THEN Canon(x.sgn, BAdd(mx, my), e)
             ELSE LET c == BCmp(mx, my)
                  IN  IF c = 0 THEN FZero
                      ELSE IF c > 0 THEN Canon(x.sgn, BSub(mx, my), e)
                      ELSE Canon(y.sgn, BSub(my, mx), e)

FAdd(x, y, p) == FRound(ExactAdd(x, y), p)
FSub(x, y, p) == FRound(ExactAdd(x, FNeg(y)), p)
FMul(x, y, p) ==
    IF x.sgn = 0 \/ y.sgn = 0 THEN FZero
    ELSE RoundTo(x.sgn * y.sgn, BMul(x.man, y.man), x.exp + y.exp, FALSE, p)

FLess(x, y) == ExactAdd(x, FNeg(y)).sgn < 0

\* x / n for an integer 0 < n < 2^15, rounded to p bits
FDivInt(x, n, p) ==
    IF x.sgn = 0 THEN FZero
    ELSE LET k == p + 17
             d == BDivSmall(BShl(x.man, k), n)
         IN  RoundTo(x.sgn, d.q, x.exp - k, d.r # 0, p)

\* x * y, exactly (not rounded)
ExactMul(x, y) == Canon(x.sgn * y.sgn, BMul(x.man, y.man), x.exp + y.exp)

FAbs(x) == [x EXCEPT !.sgn = IF x.sgn = 0 THEN 0 ELSE 1]
FLeq(x, y) == ~FLess(y, x)
\* x * 2^k
FScale2(x, k) == IF x.sgn = 0 THEN x ELSE [x EXCEPT !.exp = x.exp + k]

\* The float a decimal literal num/den of the source text denotes
FLiteral(num, den) == FDivInt(FFromInt(num), den, DoublePrec)

Axes == 1..3

(***************************************************************************)
(* Raw measurements: struct "<hhh", three signed 16-bit values.            *)
(***************************************************************************)
INT16_MIN == -32768
INT16_MAX == 32767
Int16 == INT16_MIN..INT16_MAX

(***************************************************************************)
(* IMU: the scaling of raw accelerometer and gyroscope values.             *)
(***************************************************************************)
accel_scale == 4                    \* g
accel_sens  == FLiteral(122, 1000)  \* 0.122 milli-g/LSB
gyro_scale  == 500                  \* deg/sec
gyro_sens   == FLiteral(175, 10)    \* 17.5 milli-deg/sec/LSB

\* The saturation both scaling functions end with: +/- scale once the scaled
\* value is beyond it
SaturateOneSided(scaled_value, scale) ==
    IF FLess(FFromInt(scale), scaled_value) THEN FFromInt(scale)
    ELSE scaled_value

Saturate(scaled_value, scale) ==
    IF FLess(FFromInt(scale), scaled_value) THEN FFromInt(scale)
    ELSE IF FLess(scaled_value, FFromInt(-scale)) THEN FFromInt(-scale)
    ELSE scaled_value

_scale_raw_accel(raw_value) ==
    Saturate(FDivInt(FMul(FFromInt(raw_value), accel_sens, DoublePrec),
                     1000, DoublePrec),
             accel_scale)

_scale_raw_gyro(raw_value) ==
    Saturate(FDivInt(FMul(FFromInt(raw_value), gyro_sens, DoublePrec),
                     1000, DoublePrec),
             gyro_scale)

(***************************************************************************)
(* Magnetometer: the scaling of raw values.                                *)
(***************************************************************************)
mag_scale == 4      \* gauss
mag_sens  == 6842   \* LSB/gauss

\* Beyond the scale the function returns mag_scale itself, the limit in
\* gauss; within it, the value in gauss times 100
_scale_raw_mag(raw_value) ==
    LET scaled_value == FDivInt(FFromInt(raw_value), mag_sens, DoublePrec)
    IN  IF FLess(FFromInt(mag_scale), scaled_value) THEN FFromInt(mag_scale)
        ELSE IF FLess(scaled_value, FFromInt(-mag_scale)) THEN FFromInt(-mag_scale)
        ELSE FMul(scaled_value, FFromInt(100), DoublePrec)

(***************************************************************************)
(* State.                                                                  *)
(***************************************************************************)
VARIABLES
    s_raw,      \* scaling: the raw value handed to a scaling function
    s_out,      \* scaling: [fn, val], the function last applied and its result
    hw_id,      \* bus: per device, the byte its identity register returns
    regs,       \* bus: per device, the content of its control registers
    bus_log,    \* bus: per device, the transactions issued to it, in order
    dev_pc,     \* device: per device, where its construction stands
    polls,      \* device: per device, the reset polls made so far
    gyro_offset,\* IMU: _gyro_offset_x, _gyro_offset_y, _gyro_offset_z
    g_pc,       \* IMU: "idle", or "sampling" inside run_gyro_calibration
    g_args,     \* run_gyro_calibration: [secs, hz, obs] of the call
    xyz_vals,   \* run_gyro_calibration: x_vals, y_vals, z_vals, one triple per sample
    g_raws,     \* history: the raw vectors read during the call
    g_seen,     \* history: the samples handed to on_measurement during the call
    g_bias0,    \* history: the bias held when the call was made
    g_ret,      \* history: how the last call on the driver ended, and its result
    g_cal_ret,  \* history: what the last completed calibration returned
    hard_offsets, \* Magnometer: _hard_offsets
    soft_offsets, \* Magnometer: _soft_offsets, a sequence of three rows
    mag_prec,   \* Magnometer: the precision of the dtype of the two arrays
    mag_field,  \* Magnometer: _mag_field
    m_ctor,     \* history: whether each array is a calibration, not the default
    m_before,   \* history: the offsets held when run_mag_calibration was called
    m_raws,     \* history: the raw vectors that call read from the device
    m_data,     \* history: data, the samples that call collected
    m_fit,      \* history: what the ellipsoid fit of that call yielded
    m_ret,      \* history: how the last call on the driver ended, and its result
    cal_file,   \* calibration.json: absent, or the JSON value it holds
    c_pc,       \* calibrate.py: "start", or how the program ended
    c_gyro,     \* calibrate.py: the gyro_offsets of calibrate(), once computed
    main_pc,    \* chaoscope.py: the position of main() and the heading reader
    main_gyro_offsets, \* chaoscope.py main(): gyro_offsets
    main_mag_offsets,  \* chaoscope.py main(): mag_offsets
    hr_imu,     \* HeadingReader: the bias of _imu, once constructed
    hr_mag,     \* HeadingReader: the fields of _mag, once constructed
    v_reg,      \* device: the address of the first of its six output registers
    out_regs,   \* device: the bytes its six output registers hold
    v_ret,      \* history: how the last get_measurement_vector ended, its result
    now,        \* the clock datetime.now reads, in milliseconds
    h_pc,       \* HeadingReader: "new", "ticking" (timer running), or how it ended
    h_mag_hard, \* HeadingReader: _mag_offsets, the hard offsets _mag is built with
    _filter,    \* HeadingReader: _filter, None or the Madgwick filter
    _last_heading, \* HeadingReader: _last_heading
    _last_reading, \* HeadingReader: _last_reading
    h_ticks,    \* history: the number of timer ticks handled
    h_first,    \* history: the first call of the filter's update
    h_last,     \* history: the latest call of the filter's update
    h_out,      \* history: what the filter's update last returned
    h_at,       \* history: the clock at the first and at the latest update
    h_dt_sum,   \* history: the sum of the dt given on ticks, in milliseconds
    h_emits,    \* history: the number of heading records emitted
    h_emitted,  \* history: the last record the heading signal emitted
    h_err,      \* history: the ticks whose bus read failed, and if the last did
    t_pc,       \* threads: per reader thread, its next bus call and if it is in it
    quats,      \* avg_quats: the quaternions of the window taken so far
    accum,      \* avg_quats: accum
    a_ret,      \* avg_quats: not yet returned, or what it returned
    button,     \* the capture button: "up", "down", or "held" (down for hold_time)
    capturing,  \* CameraCapturer: capturing
    recording,  \* CameraCapturer: recording
    job,        \* picamera2: whether a capture request is under way
    _timer,     \* CameraCapturer: _timer, "none", or what the running timer calls
    img_filename, \* CameraCapturer: img_filename
    vid_filename, \* CameraCapturer: vid_filename
    counter_file, \* PHOTO_DIR / "counter": absent, or the text it holds
    saved,      \* history: the file names saved so far, in order
    rec_secs,   \* the seconds gone by since the recording started
    capture_label, \* CameraCapturer: what update_ui last put on capture_label
    proc,       \* the program: "running", or "aborted" by PyQt
    finish,     \* whether OverlayWindow.finish has been emitted
    r_start,    \* per reader: start() is "new" (not run), "ok" or "raised"
    r_timer,    \* per reader: _timer, "none", or the timer "idle" or "active"
    r_stop,     \* per reader: stop() is "no", "queued", "returned" or "raised"
    r_finished, \* per reader: whether finished has been emitted
    r_thread,   \* per reader: its QThread is "made", "running" or "quit"
    is_reading, \* RangeReader: is_reading
    _i2c,       \* RangeReader: whether _i2c has been assigned
    _gpio,      \* RangeReader: whether _gpio has been assigned
    range_button, \* the range button: "up" or "down"
    in_flight,  \* the data-ready events the lidar has yet to deliver
    stopped_reading, \* history: on_stop_reading ran, on_start_reading not since
    since_stop, \* history: the readings emitted since on_stop_reading ran
    rd_failed,  \* history: a bus read failed since on_start_reading
    dr_last,    \* history: the last run of on_data_ready
    sb_bus,     \* set_register_bit: the registers of a device and its bus log
    sb_call     \* history: the last call of set_register_bit

scaleVars == <<s_raw, s_out>>
busVars   == <<hw_id, regs, bus_log, dev_pc, polls>>
gyroVars  == <<gyro_offset, g_pc, g_args, xyz_vals, g_raws, g_seen, g_bias0,
               g_ret, g_cal_ret>>
magVars   == <<hard_offsets, soft_offsets, mag_prec, mag_field, m_ctor,
               m_before, m_raws, m_data, m_fit, m_ret>>
calVars   == <<cal_file, c_pc, c_gyro, main_pc, main_gyro_offsets,
               main_mag_offsets, hr_imu, hr_mag>>
vecVars   == <<v_reg, out_regs, v_ret>>
headVars  == <<now, h_pc, h_mag_hard, _filter, _last_heading, _last_reading,
               h_ticks, h_first, h_last, h_out, h_at, h_dt_sum, h_emits,
               h_emitted, h_err>>
avgVars   == <<quats, accum, a_ret>>
camVars   == <<button, capturing, recording, job, _timer, img_filename,
               vid_filename, counter_file, saved, rec_secs, capture_label>>
rdrVars   == <<proc, finish, r_start, r_timer, r_stop, r_finished, r_thread,
               is_reading, _i2c, _gpio, range_button, in_flight,
               stopped_reading, since_stop, rd_failed, dr_last>>
bitVars   == <<sb_bus, sb_call>>
vars == <<scaleVars, busVars, gyroVars, magVars, calVars, vecVars, headVars,
          t_pc,
          avgVars,
          camVars,
          rdrVars,
          bitVars>>

(***************************************************************************)
(* The bus devices: I2CDevice and the setup() of its two subclasses.       *)
(***************************************************************************)
Devices == {"imu", "mag"}

IMU_WHO_AM_I_VAL == 108     \* 0x6C
MAG_WHO_AM_I_VAL == 61      \* 0x3D
WHO_AM_I_REG     == 15      \* 0x0F, both devices
WHO_AM_I_VAL(d) == IF d = "imu" THEN IMU_WHO_AM_I_VAL ELSE MAG_WHO_AM_I_VAL

\* IMU registers
CTRL1_XL == 16
CTRL2_G  == 17
CTRL3_C  == 18
CTRL9_XL == 24
\* Magnetometer registers
CTRL_REG1 == 32
CTRL_REG2 == 33
CTRL_REG3 == 34
CTRL_REG4 == 35
CTRL_REG5 == 36

ControlRegs(d) ==
    IF d = "imu" THEN {CTRL1_XL, CTRL2_G, CTRL3_C, CTRL9_XL}
    ELSE {CTRL_REG1, CTRL_REG2, CTRL_REG3, CTRL_REG4, CTRL_REG5}

\* The register and bit reset() sets
ResetReg(d) == IF d = "imu" THEN CTRL3_C ELSE CTRL_REG2
ResetBit(d) == IF d = "imu" THEN 0 ELSE 2

RegBit(val, bit) == (val \div 2^bit) % 2

\* reg_val += mask, reg_val -= mask, to compare with
WithBitAdded(reg_val, bit, val) ==
    IF val THEN reg_val + 2^bit ELSE reg_val - 2^bit

\* reg_val |= mask, reg_val &= ~mask for mask = 1 << bit
WithBit(reg_val, bit, val) ==
    IF val THEN (IF RegBit(reg_val, bit) = 1 THEN reg_val ELSE reg_val + 2^bit)
    ELSE (IF RegBit(reg_val, bit) = 1 THEN reg_val - 2^bit ELSE reg_val)

RdOp(reg, val) == [op |-> "read", reg |-> reg, val |-> val]
WrOp(reg, val) == [op |-> "write", reg |-> reg, val |-> val]

\* A bus with the register file rf and the log lg of one device; the
\* operations below take it and return it with their effect
\* (fields: rf, lg, and ret for what a read returns)
Bus(rf, lg) == [rf |-> rf, lg |-> lg]

write_byte_data(b, reg, val) ==
    [rf |-> [b.rf EXCEPT ![reg] = val], lg |-> Append(b.lg, WrOp(reg, val))]

\* read of a control register: the log with the read added
read_byte_data(b, reg) ==
    [rf |-> b.rf, lg |-> Append(b.lg, RdOp(reg, b.rf[reg]))]

\* set_register_bit: read the register, change the bit, write it back
set_register_bit(b, reg, bit, val) ==
    write_byte_data(read_byte_data(b, reg), reg, WithBit(b.rf[reg], bit, val))

\* What setup() does once reset() has seen the reset bit clear
SetupAfterReset(d, b) ==
    IF d = "imu"
    THEN LET b1 == set_register_bit(b, CTRL9_XL, 1, TRUE)
             b2 == set_register_bit(b1, CTRL3_C, 6, TRUE)
             b3 == write_byte_data(b2, CTRL1_XL, 4 * 16 + 2 * 4)
         IN  write_byte_data(b3, CTRL2_G, 4 * 16 + 1 * 4)
    ELSE LET b1 == set_register_bit(b, CTRL_REG5, 6, TRUE)
             b2 == write_byte_data(b1, CTRL_REG1, 3 * 32 + 1 * 2)
             b3 == write_byte_data(b2, CTRL_REG2, 0)
             b4 == write_byte_data(b3, CTRL_REG3, 0)
         IN  write_byte_data(b4, CTRL_REG4, 0)

\* What the identity register may hold: the IMU's value, the magnetometer's
\* (a device at the wrong address), or zero
IdValues == {IMU_WHO_AM_I_VAL, MAG_WHO_AM_I_VAL, 0}
\* What the control registers may hold at power on
PowerOnValues == {0, 255}
MaxPolls == 2

\* No device on the bus is being constructed
BusOff ==
    /\ hw_id = [d \in Devices |-> WHO_AM_I_VAL(d)]
    /\ regs = [d \in Devices |-> [r \in ControlRegs(d) |-> 0]]
    /\ bus_log = [d \in Devices |-> <<>>]
    /\ dev_pc = [d \in Devices |-> "new"]
    /\ polls = [d \in Devices |-> 0]

BusInit ==
    /\ hw_id \in [Devices -> IdValues]
    /\ \E pv \in [Devices -> PowerOnValues] :
           regs = [d \in Devices |-> [r \in ControlRegs(d) |-> pv[d]]]
    /\ bus_log = [d \in Devices |-> <<>>]
    /\ dev_pc = [d \in Devices |-> "new"]
    /\ polls = [d \in Devices |-> 0]

\* I2CDevice.__init__ with the identity check left out
DeviceInitUnchecked(d) ==
    /\ dev_pc[d] = "new"
    /\ LET b0 == [rf |-> regs[d],
                  lg |-> Append(bus_log[d], RdOp(WHO_AM_I_REG, hw_id[d]))]
           b1 == set_register_bit(b0, ResetReg(d), ResetBit(d), TRUE)
       IN  /\ regs' = [regs EXCEPT ![d] = b1.rf]
           /\ bus_log' = [bus_log EXCEPT ![d] = b1.lg]
           /\ dev_pc' = [dev_pc EXCEPT ![d] = "reset_wait"]
    /\ UNCHANGED <<hw_id, polls, scaleVars, gyroVars, magVars, calVars, vecVars, headVars, t_pc,
                   avgVars, camVars, rdrVars, bitVars>>

\* I2CDevice.__init__: read the identity register; raise if it is not the
\* expected value; else setup(), which starts with reset(): set the reset
\* bit, then poll it
DeviceInit(d) ==
    /\ dev_pc[d] = "new"
    /\ LET b0 == [rf |-> regs[d],
                  lg |-> Append(bus_log[d], RdOp(WHO_AM_I_REG, hw_id[d]))]
           b1 == set_register_bit(b0, ResetReg(d), ResetBit(d), TRUE)
       IN  IF hw_id[d] # WHO_AM_I_VAL(d)
           THEN /\ bus_log' = [bus_log EXCEPT ![d] = b0.lg]
                /\ dev_pc' = [dev_pc EXCEPT ![d] = "raised"]
                /\ UNCHANGED regs
           ELSE /\ regs' = [regs EXCEPT ![d] = b1.rf]
                /\ bus_log' = [bus_log EXCEPT ![d] = b1.lg]
                /\ dev_pc' = [dev_pc EXCEPT ![d] = "reset_wait"]
    /\ UNCHANGED <<hw_id, polls, scaleVars, gyroVars, magVars, calVars, vecVars, headVars, t_pc,
                   avgVars, camVars, rdrVars, bitVars>>

\* One turn of reset()'s loop, while self.get_register_bit(reg, bit): the
\* bit still set, sleep and poll again; the bit clear, the rest of setup()
\* runs and the constructor returns
ResetPoll(d) ==
    /\ dev_pc[d] = "reset_wait"
    /\ polls[d] < MaxPolls
    /\ LET b0 == read_byte_data(Bus(regs[d], bus_log[d]), ResetReg(d))
           b1 == SetupAfterReset(d, b0)
       IN  IF RegBit(regs[d][ResetReg(d)], ResetBit(d)) = 1
           THEN /\ bus_log' = [bus_log EXCEPT ![d] = b0.lg]
                /\ polls' = [polls EXCEPT ![d] = polls[d] + 1]
                /\ UNCHANGED <<regs, dev_pc>>
           ELSE /\ regs' = [regs EXCEPT ![d] = b1.rf]
                /\ bus_log' = [bus_log EXCEPT ![d] = b1.lg]
                /\ dev_pc' = [dev_pc EXCEPT ![d] = "ready"]
                /\ UNCHANGED polls
    /\ UNCHANGED <<hw_id, scaleVars, gyroVars, magVars, calVars, vecVars, headVars, t_pc,
                   avgVars, camVars, rdrVars, bitVars>>

\* The device: it clears the reset bit when its reset is complete
HwResetDone(d) ==
    /\ RegBit(regs[d][ResetReg(d)], ResetBit(d)) = 1
    /\ dev_pc[d] = "reset_wait"
    /\ regs' = [regs EXCEPT
                  ![d][ResetReg(d)] = WithBit(regs[d][ResetReg(d)], ResetBit(d), FALSE)]
    /\ UNCHANGED <<hw_id, bus_log, dev_pc, polls, scaleVars, gyroVars, magVars, calVars, vecVars, headVars, t_pc,
                   avgVars, camVars, rdrVars, bitVars>>

BusNext ==
    \E d \in Devices : DeviceInit(d) \/ ResetPoll(d) \/ HwResetDone(d)

(***************************************************************************)
(* The scaling functions applied to raw values.  The raw values are those  *)
(* within RawWindow of the ends of the 16-bit range, of zero, and of the   *)
(* raw values at which the gyroscope and the magnetometer reach full scale.*)
(***************************************************************************)
RawWindow == 8

GyroEdge == (gyro_scale * 10000) \div 175
MagEdge  == mag_scale * mag_sens
RawPoints == {INT16_MIN, -GyroEdge, -MagEdge, 0, MagEdge, GyroEdge, INT16_MAX}
RawSamples == {r \in Int16 : \E c \in RawPoints : r - c \in (-RawWindow)..RawWindow}

NoOutput == [fn |-> "none", val |-> FZero]

\* No scaling function is being applied
ScaleOff ==
    /\ s_raw = 0
    /\ s_out = NoOutput

ScaleInit ==
    /\ s_raw \in RawSamples
    /\ s_out = NoOutput

ScaleRawAccel ==
    /\ s_out' = [fn |-> "accel", val |-> _scale_raw_accel(s_raw)]
    /\ UNCHANGED <<s_raw, busVars, gyroVars, magVars, calVars, vecVars, headVars, t_pc,
                   avgVars, camVars, rdrVars, bitVars>>

ScaleRawGyro ==
    /\ s_out' = [fn |-> "gyro", val |-> _scale_raw_gyro(s_raw)]
    /\ UNCHANGED <<s_raw, busVars, gyroVars, magVars, calVars, vecVars, headVars, t_pc,
                   avgVars, camVars, rdrVars, bitVars>>

ScaleRawMag ==
    /\ s_out' = [fn |-> "mag", val |-> _scale_raw_mag(s_raw)]
    /\ UNCHANGED <<s_raw, busVars, gyroVars, magVars, calVars, vecVars, headVars, t_pc,
                   avgVars, camVars, rdrVars, bitVars>>

ScaleNext == ScaleRawAccel \/ ScaleRawGyro \/ ScaleRawMag

(***************************************************************************)
(* The IMU driver: gyroscope readings and run_gyro_calibration.            *)
(***************************************************************************)
ZeroVec == <<FZero, FZero, FZero>>

\* math.fsum: the exact sum, rounded once
RECURSIVE ExactSum(_, _)
ExactSum(vals, i) ==
    IF i > Len(vals) THEN FZero ELSE ExactAdd(vals[i], ExactSum(vals, i + 1))

fsum(vals) == FRound(ExactSum(vals, 1), DoublePrec)

\* A mean that leaves the last sample out
MeanOfAllButLast(vals) ==
    IF Len(vals) = 1 THEN vals[1]
    ELSE FDivInt(fsum(SubSeq(vals, 1, Len(vals) - 1)), Len(vals) - 1, DoublePrec)

\* statistics.fmean of a non-empty list: fsum(data) / n
fmean(vals) == FDivInt(fsum(vals), Len(vals), DoublePrec)

\* The samples of one axis
AxisVals(vals, a) == [i \in 1..Len(vals) |-> vals[i][a]]

\* get_scaled_gyro with the bias added instead of subtracted
get_scaled_gyro_added(raw, offset) ==
    [a \in Axes |-> FAdd(_scale_raw_gyro(raw[a]), offset[a], DoublePrec)]

\* get_scaled_gyro, for the raw vector the bus returns and the bias held
get_scaled_gyro(raw, offset) ==
    [a \in Axes |-> FSub(_scale_raw_gyro(raw[a]), offset[a], DoublePrec)]

\* The raw vectors the gyroscope output registers may hold
RawVecs == {<<-28570, 5, 30000>>, <<7, -3, 0>>}
\* The gyro_offsets a driver may be constructed with
InitialBiases == {ZeroVec, <<FLiteral(15, 10), FLiteral(-25, 100), FFromInt(2)>>}
\* The arguments of a calibration call: secs in 0..MaxSecs, hz 0 or 1
MaxSecs == 3
HzValues == {0, 1}

NoCall == [kind |-> "none"]
None == [set |-> FALSE]
Some(x) == [set |-> TRUE, val |-> x]

GyroOff ==
    /\ gyro_offset = ZeroVec
    /\ g_pc = "idle"
    /\ g_args = [secs |-> 0, hz |-> 0, obs |-> FALSE]
    /\ xyz_vals = <<>>
    /\ g_raws = <<>>
    /\ g_seen = <<>>
    /\ g_bias0 = ZeroVec
    /\ g_ret = NoCall
    /\ g_cal_ret = None

\* IMU.__init__ after the device is set up: the bias is the gyro_offsets
\* argument
GyroInit ==
    /\ gyro_offset \in InitialBiases
    /\ g_pc = "idle"
    /\ g_args = [secs |-> 0, hz |-> 0, obs |-> FALSE]
    /\ xyz_vals = <<>>
    /\ g_raws = <<>>
    /\ g_seen = <<>>
    /\ g_bias0 = gyro_offset
    /\ g_ret = NoCall
    /\ g_cal_ret = None

\* A call of get_scaled_gyro by the driver's user
GetScaledGyro(raw) ==
    /\ g_pc = "idle"
    /\ g_ret' = [kind |-> "reading", raw |-> raw,
                 val |-> get_scaled_gyro(raw, gyro_offset)]
    /\ UNCHANGED <<gyro_offset, g_pc, g_args, xyz_vals, g_raws, g_seen, g_bias0,
                   g_cal_ret, scaleVars, busVars, magVars, calVars, vecVars, headVars, t_pc,
                   avgVars, camVars, rdrVars, bitVars>>

\* A call of get_scaled_gyro in which the bus read raises
GetScaledGyroBusError ==
    /\ g_pc = "idle"
    /\ g_ret' = [kind |-> "raised", cause |-> "bus"]
    /\ UNCHANGED <<gyro_offset, g_pc, g_args, xyz_vals, g_raws, g_seen, g_bias0,
                   g_cal_ret, scaleVars, busVars, magVars, calVars, vecVars, headVars, t_pc,
                   avgVars, camVars, rdrVars, bitVars>>

\* run_gyro_calibration entered without the bias being zeroed
CalBeginKeepBias(secs, hz, obs) ==
    /\ g_pc = "idle"
    /\ g_bias0' = gyro_offset
    /\ g_args' = [secs |-> secs, hz |-> hz, obs |-> obs]
    /\ xyz_vals' = <<>>
    /\ g_raws' = <<>>
    /\ g_seen' = <<>>
    /\ g_cal_ret' = None
    /\ IF hz = 0
       THEN /\ g_pc' = "idle"
            /\ g_ret' = [kind |-> "raised", cause |-> "zerodiv"]
       ELSE /\ g_pc' = "sampling"
            /\ g_ret' = NoCall
    /\ UNCHANGED <<gyro_offset, scaleVars, busVars, magVars, calVars, vecVars, headVars, t_pc,
                   avgVars, camVars, rdrVars, bitVars>>

\* run_gyro_calibration up to its loop: zero the bias, empty the lists,
\* num_samples = secs * hz, sleep_time = 1.0 / hz (which raises for hz = 0)
CalBegin(secs, hz, obs) ==
    /\ g_pc = "idle"
    /\ g_bias0' = gyro_offset
    /\ gyro_offset' = ZeroVec
    /\ g_args' = [secs |-> secs, hz |-> hz, obs |-> obs]
    /\ xyz_vals' = <<>>
    /\ g_raws' = <<>>
    /\ g_seen' = <<>>
    /\ g_cal_ret' = None
    /\ IF hz = 0
       THEN /\ g_pc' = "idle"
            /\ g_ret' = [kind |-> "raised", cause |-> "zerodiv"]
       ELSE /\ g_pc' = "sampling"
            /\ g_ret' = NoCall
    /\ UNCHANGED <<scaleVars, busVars, magVars, calVars, vecVars, headVars, t_pc,
                   avgVars, camVars, rdrVars, bitVars>>

num_samples == g_args.secs * g_args.hz

\* One turn of the loop: read a sample, append it, call the observer if
\* there is one, sleep
CalSample(raw) ==
    /\ g_pc = "sampling"
    /\ Len(xyz_vals) < num_samples
    /\ LET xyz == get_scaled_gyro(raw, gyro_offset)
       IN  /\ xyz_vals' = Append(xyz_vals, xyz)
           /\ g_raws' = Append(g_raws, raw)
           /\ g_seen' = IF g_args.obs THEN Append(g_seen, xyz) ELSE g_seen
    /\ UNCHANGED <<gyro_offset, g_pc, g_args, g_bias0, g_ret, g_cal_ret,
                   scaleVars, busVars, magVars, calVars, vecVars, headVars, t_pc,
                   avgVars, camVars, rdrVars, bitVars>>

\* One turn of the loop in which the bus read raises: the call ends there
CalSampleBusError ==
    /\ g_pc = "sampling"
    /\ Len(xyz_vals) < num_samples
    /\ g_pc' = "idle"
    /\ g_ret' = [kind |-> "raised", cause |-> "bus"]
    /\ UNCHANGED <<gyro_offset, g_args, xyz_vals, g_raws, g_seen, g_bias0,
                   g_cal_ret, scaleVars, busVars, magVars, calVars, vecVars, headVars, t_pc,
                   avgVars, camVars, rdrVars, bitVars>>

\* One turn of the loop in which on_measurement raises: the sample is in the
\* lists, and the call ends there
CalSampleObserverError(raw) ==
    /\ g_pc = "sampling"
    /\ Len(xyz_vals) < num_samples
    /\ g_args.obs
    /\ LET xyz == get_scaled_gyro(raw, gyro_offset)
       IN  /\ xyz_vals' = Append(xyz_vals, xyz)
           /\ g_raws' = Append(g_raws, raw)
           /\ g_seen' = Append(g_seen, xyz)
    /\ g_pc' = "idle"
    /\ g_ret' = [kind |-> "raised", cause |-> "observer"]
    /\ UNCHANGED <<gyro_offset, g_args, g_bias0, g_cal_ret, scaleVars, busVars, magVars, calVars, vecVars, headVars, t_pc,
                   avgVars, camVars, rdrVars, bitVars>>

\* After the loop: the bias becomes the fmean of each list and is returned;
\* fmean raises on an empty list
CalFinish ==
    /\ g_pc = "sampling"
    /\ Len(xyz_vals) = num_samples
    /\ g_pc' = "idle"
    /\ IF xyz_vals = <<>>
       THEN /\ g_ret' = [kind |-> "raised", cause |-> "empty"]
            /\ UNCHANGED <<gyro_offset, g_cal_ret>>
       ELSE LET mean == [a \in Axes |-> fmean(AxisVals(xyz_vals, a))]
            IN  /\ gyro_offset' = mean
                /\ g_ret' = [kind |-> "calibrated", val |-> mean]
                /\ g_cal_ret' = Some(mean)
    /\ UNCHANGED <<g_args, xyz_vals, g_raws, g_seen, g_bias0, scaleVars, busVars, magVars, calVars, vecVars, headVars, t_pc,
                   avgVars, camVars, rdrVars, bitVars>>

GyroNext ==
    \/ \E raw \in RawVecs : GetScaledGyro(raw)
    \/ GetScaledGyroBusError
    \/ \E secs \in 0..MaxSecs, hz \in HzValues, obs \in BOOLEAN :
           CalBegin(secs, hz, obs)
    \/ \E raw \in RawVecs : CalSample(raw)
    \/ CalSampleBusError
    \/ \E raw \in RawVecs : CalSampleObserverError(raw)
    \/ CalFinish

(***************************************************************************)
(* The magnetometer driver: corrected readings and run_mag_calibration.    *)
(* The soft-iron matrices of the model have at most one non-zero entry in  *)
(* each column, so the order in which a matrix product adds its terms, and *)
(* the precision in which it keeps the partial sums, do not show.          *)
(***************************************************************************)
\* np.eye(3)
Eye3 == [i \in Axes |-> [j \in Axes |-> IF i = j THEN FFromInt(1) ELSE FZero]]
\* A diagonal matrix
Diag(v) == [i \in Axes |-> [j \in Axes |-> IF i = j THEN v[i] ELSE FZero]]

\* np.array(..., dtype=np.float32) of a vector and of a matrix of numbers
Float32Vec(v) == [a \in Axes |-> FRound(v[a], SinglePrec)]
Float32Mat(m) == [i \in Axes |-> Float32Vec(m[i])]

\* Magnometer.__init__: the default of hard_offsets is (0.0, 0.0, 0.0), and
\* soft_offsets or np.eye(3) is the identity for the default None
DefaultArg == [given |-> FALSE]
Given(x) == [given |-> TRUE, val |-> x]
HardOf(arg) == Float32Vec(IF arg.given THEN arg.val ELSE ZeroVec)
SoftOf(arg) == Float32Mat(IF arg.given THEN arg.val ELSE Eye3)
DefaultMagField == 1000
FieldOf(arg) == FFromInt(IF arg.given THEN arg.val ELSE DefaultMagField)

\* _get_scaled_mag_array, for the raw vector the bus returns
_get_scaled_mag_array(raw) == Float32Vec([a \in Axes |-> _scale_raw_mag(raw[a])])

\* The exact sum of x[1]*y[1] + x[2]*y[2] + x[3]*y[3]
ExactDot(x, y) ==
    ExactAdd(ExactMul(x[1], y[1]),
             ExactAdd(ExactMul(x[2], y[2]), ExactMul(x[3], y[3])))

\* The column j of a matrix
Column(m, j) == [i \in Axes |-> m[i][j]]

\* The correction with the matrix on the left of the vector
CorrectedMatrixOnLeft(scaled, hard, soft, p) ==
    LET t == [a \in Axes |-> FSub(scaled[a], hard[a], p)]
    IN  [j \in Axes |-> FRound(ExactDot(soft[j], t), p)]

\* _get_corrected_mag_array: (scaled - hard_offsets) @ soft_offsets, in the
\* precision p numpy promotes the operands to
_get_corrected_mag_array(scaled, hard, soft, p) ==
    LET t == [a \in Axes |-> FSub(scaled[a], hard[a], p)]
    IN  [j \in Axes |-> FRound(ExactDot(t, Column(soft, j)), p)]

\* The raw vectors the magnetometer output registers may hold
MagRawVecs == {<<1000, -250, 30000>>, <<-6842, 0, 3421>>}
\* The calibration arguments a driver may be constructed with
HardArgs == {DefaultArg,
             Given(<<FLiteral(25, 2), FLiteral(-13, 4), FLiteral(1, 10)>>)}
SoftArgs == {DefaultArg,
             Given(Diag(<<FFromInt(2), FLiteral(1, 2), FFromInt(1)>>)),
             Given(<<<<FZero, FFromInt(2), FZero>>,
                     <<FFromInt(1), FZero, FZero>>,
                     <<FZero, FZero, FLiteral(3, 4)>>>>)}
FieldArgs == {DefaultArg, Given(48)}

\* What sampling and _ellipsoid_fit may yield: the fit raises (scipy finds
\* S_22 singular), or returns M, n, d.  M is diagonal with entries 4, 1, 0 or
\* -4, n is a vector of integers and d an integer, chosen so that every
\* quotient and square root taken of them is exact.
FitRaised == [raised |-> TRUE]
Fit(M, n, d) == [raised |-> FALSE, M |-> M, n |-> n, d |-> d]
FitResults ==
    {FitRaised,
     Fit(<<1, 1, 1>>, <<0, 0, 0>>, -1),
     Fit(<<4, 1, 4>>, <<8, -3, 0>>, 21),
     Fit(<<4, 4, 0>>, <<0, 0, 0>>, -1),
     Fit(<<4, 4, -4>>, <<8, 0, 4>>, 3)}

Singular(M) == \E a \in Axes : M[a] = 0
PositiveDefinite(M) == \A a \in Axes : M[a] > 0

\* linalg.inv of a non-singular diagonal matrix, as its diagonal
DiagInv(M) ==
    [a \in Axes |-> IF M[a] > 0 THEN FLiteral(1, M[a])
                    ELSE FNeg(FLiteral(1, -M[a]))]

\* b = np.dot(M_1, n), without the sign
HardIronPlus(fit) ==
    [a \in Axes |-> FMul(DiagInv(fit.M)[a], FFromInt(fit.n[a]), DoublePrec)]

\* b = -np.dot(M_1, n)
HardIron(fit) ==
    [a \in Axes |-> FNeg(FMul(DiagInv(fit.M)[a], FFromInt(fit.n[a]), DoublePrec))]

\* np.dot(n.T, np.dot(M_1, n)) - d: a positive square for every fit of
\* FitResults, and Root is its square root
QuadMinusD(fit) ==
    LET M_1 == DiagInv(fit.M)
        n   == [a \in Axes |-> FFromInt(fit.n[a])]
        M1n == [a \in Axes |-> FMul(M_1[a], n[a], DoublePrec)]
    IN  FSub(FRound(ExactDot(n, M1n), DoublePrec), FFromInt(fit.d), DoublePrec)

Root(x) == CHOOSE r \in 1..8 : FFromInt(r * r) = x

\* np.real(linalg.sqrtm(M)) of a diagonal matrix: the square root of a
\* negative entry is imaginary, and its real part is zero
RealSqrtm(M) ==
    [a \in Axes |-> IF M[a] > 0 THEN FFromInt(Root(FFromInt(M[a]))) ELSE FZero]

\* A_1 = np.real(F / np.sqrt(... - d) * linalg.sqrtm(M)), as its diagonal
SoftIron(fit, F) ==
    LET scale == FDivInt(F, Root(QuadMinusD(fit)), DoublePrec)
    IN  [a \in Axes |-> FMul(scale, RealSqrtm(fit.M)[a], DoublePrec)]

NoFit == [raised |-> FALSE, M |-> <<1, 1, 1>>, n |-> <<0, 0, 0>>, d |-> 0]

MagOff ==
    /\ hard_offsets = ZeroVec
    /\ soft_offsets = Eye3
    /\ mag_prec = SinglePrec
    /\ mag_field = FZero
    /\ m_ctor = [hard |-> FALSE, soft |-> FALSE]
    /\ m_before = [hard |-> ZeroVec, soft |-> Eye3]
    /\ m_raws = <<>>
    /\ m_data = <<>>
    /\ m_fit = NoFit
    /\ m_ret = NoCall

\* Magnometer.__init__ after the device is set up
MagInit ==
    /\ \E h \in HardArgs, sf \in SoftArgs, f \in FieldArgs :
           /\ hard_offsets = HardOf(h)
           /\ soft_offsets = SoftOf(sf)
           /\ mag_field = FieldOf(f)
           /\ m_ctor = [hard |-> h.given, soft |-> sf.given]
    /\ mag_prec = SinglePrec
    /\ m_before = [hard |-> hard_offsets, soft |-> soft_offsets]
    /\ m_raws = <<>>
    /\ m_data = <<>>
    /\ m_fit = NoFit
    /\ m_ret = NoCall

\* get_scaled_mag
GetScaledMag(raw) ==
    /\ LET scaled == _get_scaled_mag_array(raw)
       IN  m_ret' = [kind |-> "reading", raw |-> raw, scaled |-> scaled,
                     val |-> _get_corrected_mag_array(scaled, hard_offsets,
                                                      soft_offsets, mag_prec)]
    /\ UNCHANGED <<hard_offsets, soft_offsets, mag_prec, mag_field, m_ctor,
                   m_before, m_raws, m_data, m_fit, scaleVars, busVars,
                   gyroVars, calVars, vecVars, headVars, t_pc, avgVars,
                   camVars, rdrVars, bitVars>>

\* The numbers of seconds run_mag_calibration may be asked to sample for
MagSecsValues == {0, 2}
\* The raw vectors the device yields to num_samples reads
MagStreams(count) == [1..count -> MagRawVecs]
\* _get_scaled_mag_array of every raw vector, computed once
ScaledMagArrays == [raw \in MagRawVecs |-> _get_scaled_mag_array(raw)]

\* b and A_1 of every fit with a matrix that has an inverse, for each expected
\* field magnitude, computed once
CalibrationOf ==
    [fit \in {f \in FitResults : ~f.raised /\ ~Singular(f.M)} |->
        [F \in {FieldOf(f) : f \in FieldArgs} |->
            [b |-> HardIron(fit), A_1 |-> Diag(SoftIron(fit, F))]]]

\* run_mag_calibration with every sample passed through
\* _get_corrected_mag_array, as get_scaled_mag reads
RunMagCalibrationCorrected(secs, hz, raws, fit) ==
    /\ Len(raws) = secs * hz
    /\ secs * hz = 0 => fit = FitRaised
    /\ m_before' = [hard |-> hard_offsets, soft |-> soft_offsets]
    /\ IF hz = 0
       THEN /\ m_ret' = [kind |-> "raised", cause |-> "zerodiv"]
            /\ m_raws' = <<>>
            /\ m_data' = <<>>
            /\ UNCHANGED <<hard_offsets, soft_offsets, mag_prec, m_ctor, m_fit>>
       ELSE /\ m_raws' = raws
            /\ m_data' = [idx \in 1..(secs * hz) |->
                             Float32Vec(_get_corrected_mag_array(
                                 ScaledMagArrays[raws[idx]], hard_offsets,
                                 soft_offsets, mag_prec))]
            /\ m_fit' = fit
            /\ IF fit.raised \/ Singular(fit.M)
               THEN /\ m_ret' = [kind |-> "raised", cause |-> "singular"]
                    /\ UNCHANGED <<hard_offsets, soft_offsets, mag_prec, m_ctor>>
               ELSE /\ hard_offsets' = CalibrationOf[fit][mag_field].b
                    /\ soft_offsets' = CalibrationOf[fit][mag_field].A_1
                    /\ mag_prec' = DoublePrec
                    /\ m_ctor' = [hard |-> TRUE, soft |-> TRUE]
                    /\ m_ret' = [kind |-> "calibrated",
                                 hard_offsets |-> hard_offsets',
                                 soft_offsets |-> soft_offsets',
                                 mag_field |-> mag_field]
    /\ UNCHANGED <<mag_field, scaleVars, busVars, gyroVars, calVars, vecVars,
                   headVars, t_pc, avgVars, camVars, rdrVars, bitVars>>

\* run_mag_calibration: sleep_time = 1.0 / hz raises for hz = 0; num_samples
\* = secs * hz samples are taken with _get_scaled_mag_array and stored in the
\* float32 array data; data is fitted (of no samples S_22 is the zero matrix,
\* and its inverse raises); linalg.inv(M) raises for a singular M; b and A_1
\* are computed and stored, and the record is returned
RunMagCalibration(secs, hz, raws, fit) ==
    /\ Len(raws) = secs * hz
    /\ secs * hz = 0 => fit = FitRaised
    /\ m_before' = [hard |-> hard_offsets, soft |-> soft_offsets]
    /\ IF hz = 0
       THEN /\ m_ret' = [kind |-> "raised", cause |-> "zerodiv"]
            /\ m_raws' = <<>>
            /\ m_data' = <<>>
            /\ UNCHANGED <<hard_offsets, soft_offsets, mag_prec, m_ctor, m_fit>>
       ELSE /\ m_raws' = raws
            /\ m_data' = [idx \in 1..(secs * hz) |->
                             Float32Vec(ScaledMagArrays[raws[idx]])]
            /\ m_fit' = fit
            /\ IF fit.raised \/ Singular(fit.M)
               THEN /\ m_ret' = [kind |-> "raised", cause |-> "singular"]
                    /\ UNCHANGED <<hard_offsets, soft_offsets, mag_prec, m_ctor>>
               ELSE /\ hard_offsets' = CalibrationOf[fit][mag_field].b
                    /\ soft_offsets' = CalibrationOf[fit][mag_field].A_1
                    /\ mag_prec' = DoublePrec
                    /\ m_ctor' = [hard |-> TRUE, soft |-> TRUE]
                    /\ m_ret' = [kind |-> "calibrated",
                                 hard_offsets |-> hard_offsets',
                                 soft_offsets |-> soft_offsets',
                                 mag_field |-> mag_field]
    /\ UNCHANGED <<mag_field, scaleVars, busVars, gyroVars, calVars, vecVars,
                   headVars, t_pc, avgVars, camVars, rdrVars, bitVars>>

MagNext ==
    \/ \E raw \in MagRawVecs : GetScaledMag(raw)
    \/ \E secs \in MagSecsValues, hz \in HzValues :
           \E raws \in MagStreams(secs * hz), fit \in FitResults :
               RunMagCalibration(secs, hz, raws, fit)

(***************************************************************************)
(* The calibration file: calibrate.py, which writes it, and main() of      *)
(* chaoscope.py with its heading reader, which load it.  A JSON or Python  *)
(* value is a number, a string, a list (or tuple) or a dict with its keys  *)
(* in order; json.dumps followed by json.loads gives back the same value,  *)
(* with lists for tuples.                                                  *)
(***************************************************************************)
Num(x) == [t |-> "num", v |-> x]
Str(x) == [t |-> "str", v |-> x]
List(x) == [t |-> "list", v |-> x]
Dict(keys, vals) == [t |-> "dict", keys |-> keys, vals |-> vals]

\* d[key] of a dict
Item(d, key) == d.vals[CHOOSE i \in 1..Len(d.keys) : d.keys[i] = key]

\* tuple(x): the elements of a list, the keys of a dict
tuple(x) ==
    IF x.t = "dict" THEN [i \in 1..Len(x.keys) |-> Str(x.keys[i])] ELSE x.v

NumList(v) == List([i \in 1..Len(v) |-> Num(v[i])])

\* MagnometerCalibration.asdict: the fields in their order
asdict(hard, soft, field) ==
    Dict(<<"hard_offsets", "soft_offsets", "mag_field">>,
         <<NumList(hard), List([i \in Axes |-> NumList(soft[i])]), Num(field)>>)

\* The dict calibrate() returns, which __main__ dumps to the file
CalData(gyro_offsets, hard, soft, field) ==
    Dict(<<"gyroscope", "magnometer">>,
         <<NumList(gyro_offsets), asdict(hard, soft, field)>>)

\* np.array(seq, dtype=np.float32) of a sequence of three Python values: a
\* ValueError unless all are numbers
IsNumbers(seq) == \A i \in 1..Len(seq) : seq[i].t = "num"
Numbers(seq) == [i \in 1..Len(seq) |-> seq[i].v]

\* The calibrations a calibration file may come from
GyroBiases == {ZeroVec,
               <<FLiteral(15, 10), FLiteral(-25, 100), FFromInt(2)>>,
               <<FLiteral(-1, 8), FLiteral(7, 100), FZero>>}
MagCalibrations ==
    {[hard |-> HardIron(f), soft |-> Diag(SoftIron(f, FFromInt(F))),
      field |-> FFromInt(F)] :
        f \in {Fit(<<1, 1, 1>>, <<0, 0, 0>>, -1), Fit(<<4, 1, 4>>, <<8, -3, 0>>, 21)},
        F \in {DefaultMagField, 48}}

NoFile == [t |-> "absent"]

CalOff ==
    /\ cal_file = NoFile
    /\ c_pc = "start"
    /\ c_gyro = None
    /\ main_pc = "start"
    /\ main_gyro_offsets = <<>>
    /\ main_mag_offsets = <<>>
    /\ hr_imu = None
    /\ hr_mag = None

\* Neither program has run; calibration.json is absent, or holds what
\* json.dumps wrote for the dict of some calibration
CalInit ==
    /\ cal_file \in {NoFile} \cup
           {CalData(g, m.hard, m.soft, m.field) :
                g \in GyroBiases, m \in MagCalibrations}
    /\ c_pc = "start"
    /\ c_gyro = None
    /\ main_pc = "start"
    /\ main_gyro_offsets = <<>>
    /\ main_mag_offsets = <<>>
    /\ hr_imu = None
    /\ hr_mag = None

\* calibrate.py __main__: calibrate() runs the gyroscope calibration, then
\* calls imu.run_acc_calibration, which the IMU class does not have: the
\* AttributeError leaves through the finally clause, before write_text
Calibrate(gyro_offsets) ==
    /\ c_pc = "start"
    /\ c_gyro' = Some(gyro_offsets)
    /\ c_pc' = "raised"
    /\ UNCHANGED <<cal_file, main_pc, main_gyro_offsets, main_mag_offsets,
                   hr_imu, hr_mag, scaleVars, busVars, gyroVars, magVars, vecVars, headVars, t_pc,
                   avgVars, camVars, rdrVars, bitVars>>

\* main(), mag_offsets = tuple(cal_data["magnometer"])
MagOffsetsLoaded(cal_data) == tuple(Item(cal_data, "magnometer"))

\* main(), loading the calibration file: FileNotFoundError is re-raised
MainLoad ==
    /\ main_pc = "start"
    /\ IF cal_file = NoFile
       THEN /\ main_pc' = "raised"
            /\ UNCHANGED <<main_gyro_offsets, main_mag_offsets>>
       ELSE /\ main_gyro_offsets' = tuple(Item(cal_file, "gyroscope"))
            /\ main_mag_offsets' = MagOffsetsLoaded(cal_file)
            /\ main_pc' = "loaded"
    /\ UNCHANGED <<cal_file, c_pc, c_gyro, hr_imu, hr_mag,
                   scaleVars, busVars, gyroVars, magVars, vecVars, headVars, t_pc,
                   avgVars, camVars, rdrVars, bitVars>>

\* HeadingReader.start on its thread, with the offsets main() gave the
\* reader: the two asserts, IMU(i2c, gyro_offsets), then
\* Magnometer(i2c, mag_offsets), whose np.array raises unless the three
\* values are numbers; any exception is printed and re-raised
HeadingReaderStart ==
    /\ main_pc = "loaded"
    /\ IF main_gyro_offsets = <<>> \/ main_mag_offsets = <<>>
       THEN /\ main_pc' = "start_raised"
            /\ UNCHANGED <<hr_imu, hr_mag>>
       ELSE /\ hr_imu' = Some([a \in Axes |-> main_gyro_offsets[a].v])
            /\ IF IsNumbers(main_mag_offsets) /\ Len(main_mag_offsets) = 3
               THEN /\ hr_mag' = Some([hard |-> Float32Vec(Numbers(main_mag_offsets)),
                                       soft |-> Eye3,
                                       field |-> FFromInt(DefaultMagField)])
                    /\ main_pc' = "reading"
               ELSE /\ hr_mag' = None
                    /\ main_pc' = "start_raised"
    /\ UNCHANGED <<cal_file, c_pc, c_gyro, main_gyro_offsets, main_mag_offsets,
                   scaleVars, busVars, gyroVars, magVars, vecVars, headVars, t_pc,
                   avgVars, camVars, rdrVars, bitVars>>

CalNext ==
    \/ \E g \in GyroBiases : Calibrate(g)
    \/ MainLoad
    \/ HeadingReaderStart

(***************************************************************************)
(* Measurement vectors: the six output registers of a device and           *)
(* I2CDevice.get_measurement_vector.                                       *)
(***************************************************************************)
OUTX_L_G == 34
OUTX_L_A == 40
OUT_X_L == 40
\* The first output register of the gyroscope, accelerometer, magnetometer
OutputRegs == {OUTX_L_G, OUTX_L_A, OUT_X_L}
\* measure_vec_struct.size
VecSize == 6
\* The low and high byte an axis' two registers may hold
AxisWords == {<<0, 0>>, <<255, 127>>, <<0, 128>>, <<255, 255>>, <<1, 2>>}

\* Two bytes as a big-endian signed 16-bit value
Int16BE(b0, b1) ==
    LET u == 256 * b0 + b1 IN IF u >= 2^15 THEN u - 2^16 ELSE u

\* struct format "<h": two bytes as a little-endian two's-complement value
Int16LE(b0, b1) ==
    LET u == b0 + 256 * b1 IN IF u >= 2^15 THEN u - 2^16 ELSE u

\* measure_vec_struct.unpack(bytes(values)) of six byte values
unpack(values) ==
    <<Int16LE(values[1], values[2]), Int16LE(values[3], values[4]),
      Int16LE(values[5], values[6])>>

\* SMBus.read_i2c_block_data(addr, reg, length): the bytes of the registers
\* reg .. reg + length - 1, in one transaction
read_i2c_block_data(rf, reg, length) == [i \in 1..length |-> rf[reg + i - 1]]

VecOff ==
    /\ v_reg = OUTX_L_G
    /\ out_regs = [r \in OUTX_L_G..(OUTX_L_G + VecSize - 1) |-> 0]
    /\ v_ret = NoCall

VecInit ==
    /\ v_reg \in OutputRegs
    /\ out_regs = [r \in v_reg..(v_reg + VecSize - 1) |-> 0]
    /\ v_ret = NoCall

\* The device stores a new sample of one axis in its two registers
HwSample(a, w) ==
    /\ out_regs' = [out_regs EXCEPT ![v_reg + 2 * (a - 1)] = w[1],
                                    ![v_reg + 2 * (a - 1) + 1] = w[2]]
    /\ out_regs' # out_regs
    /\ UNCHANGED <<v_reg, v_ret, scaleVars, busVars, gyroVars, magVars, calVars, headVars, t_pc,
                   avgVars, camVars, rdrVars, bitVars>>

\* get_measurement_vector(reg): one block read of six bytes, unpacked
GetMeasurementVector ==
    /\ LET values == read_i2c_block_data(out_regs, v_reg, VecSize)
       IN  v_ret' = [kind |-> "vector", reg |-> v_reg, values |-> values,
                     reads |-> 1, val |-> unpack(values)]
    /\ UNCHANGED <<v_reg, out_regs, scaleVars, busVars, gyroVars, magVars, calVars, headVars, t_pc,
                   avgVars, camVars, rdrVars, bitVars>>

\* get_measurement_vector(reg) when the block read raises OSError
GetMeasurementVectorBusError ==
    /\ v_ret' = [kind |-> "raised", cause |-> "bus"]
    /\ UNCHANGED <<v_reg, out_regs, scaleVars, busVars, gyroVars, magVars, calVars, headVars, t_pc,
                   avgVars, camVars, rdrVars, bitVars>>

VecNext ==
    \/ \E a \in Axes, w \in AxisWords : HwSample(a, w)
    \/ GetMeasurementVector
    \/ GetMeasurementVectorBusError

(***************************************************************************)
(* The heading reader: start, and update_heading on every timer tick.      *)
(* An orientation is a rotation about the z axis by a multiple of 90       *)
(* degrees, written as its angle; the product of two quaternions adds the  *)
(* angles.  What the Madgwick update returns is not computed: it is the    *)
(* quaternion passed in, turned by one of the angles of FilterTurns.       *)
(***************************************************************************)
Quats == {0, 90, 180, 270}
\* Quaternion(): the identity
IdentityQuat == 0
\* FINAL_ROTATION = Quaternion(rpy=[0, 0, 90] * DEG2RAD)
FINAL_ROTATION == 90
\* q * r
QMul(q, r) == (q + r) % 360
\* to_angles() * RAD2DEG of a rotation about z
to_angles(q) ==
    [roll |-> 0, pitch |-> 0, yaw |-> IF q > 180 THEN q - 360 ELSE q]

READING_INTERVAL_MS == 20
\* The orientations the first accelerometer and magnetometer reading show
Tilts == {0, 180}
\* What the filter turns the quaternion by in one update
FilterTurns == {0, 90}
\* The milliseconds that may pass between two readings of the clock
Elapsed == {18, 25}
\* The ticks handled in one run
MaxTicks == 2
\* The mag_offsets a heading reader may be constructed with
MagOffsetArgs == {ZeroVec, <<FLiteral(25, 2), FLiteral(-13, 4), FZero>>}

\* timedelta.total_seconds() of a difference of ms milliseconds
total_seconds(ms) == FDivInt(FFromInt(ms * 1000), 1000000, DoublePrec)

\* total_seconds of every difference of two clock readings of a run
LongestRun == 25 * (MaxTicks + 1)
SecondsOf == [ms \in 0..LongestRun |-> total_seconds(ms)]

\* A tick that passes the filter no dt, so that it uses its nominal Dt
nominal_dt(new_reading, last_reading) == DefaultArg

\* update_heading: dt = (new_reading - self._last_reading).total_seconds()
measured_dt(new_reading, last_reading) ==
    Given(SecondsOf[new_reading - last_reading])

\* A tick that keeps the heading it emits, mounting rotation included
StoredHeadingRotated(filter_out) == QMul(filter_out, FINAL_ROTATION)

\* update_heading: self._last_heading = Quaternion(self._filter.updateMARG(...))
StoredHeading(filter_out) == filter_out

\* take_reading, the magnetometer part: [v * 100 for v in get_scaled_mag()]
\* of a driver with the given hard offsets and the identity soft matrix
TakeReadingMag(raw, hard) ==
    LET v == _get_corrected_mag_array(_get_scaled_mag_array(raw), hard, Eye3,
                                      SinglePrec)
    IN  [a \in Axes |-> FMul(v[a], FFromInt(100), DoublePrec)]

\* take_reading's magnetometer part for every raw vector and hard offset
MagReadings ==
    [raw \in MagRawVecs, hard \in MagOffsetArgs |->
        TakeReadingMag(raw, Float32Vec(hard))]

NoUpdate == [kind |-> "none"]

HeadOff ==
    /\ now = 0
    /\ h_pc = "new"
    /\ h_mag_hard = ZeroVec
    /\ _filter = None
    /\ _last_heading = IdentityQuat
    /\ _last_reading = 0
    /\ h_ticks = 0
    /\ h_first = None
    /\ h_last = NoUpdate
    /\ h_out = None
    /\ h_at = [first |-> 0, last |-> 0]
    /\ h_dt_sum = 0
    /\ h_emits = 0
    /\ h_emitted = None
    /\ h_err = [last |-> FALSE, count |-> 0]

\* HeadingReader.__init__
HeadInit ==
    /\ now = 0
    /\ h_pc = "new"
    /\ h_mag_hard \in MagOffsetArgs
    /\ _filter = None
    /\ _last_heading = IdentityQuat
    /\ _last_reading = now
    /\ h_ticks = 0
    /\ h_first = None
    /\ h_last = NoUpdate
    /\ h_out = None
    /\ h_at = [first |-> 0, last |-> 0]
    /\ h_dt_sum = 0
    /\ h_emits = 0
    /\ h_emitted = None
    /\ h_err = [last |-> FALSE, count |-> 0]

\* HeadingReader.start, el milliseconds after construction: the drivers are
\* built, a reading is taken (raw is the magnetometer's raw vector, tilt the
\* orientation the accelerometer and magnetometer show), _last_reading is
\* set, the filter is made with Dt = READING_INTERVAL_MS / 1000 and updated
\* once, without dt; then the timer is started
HeadingStart(el, raw, tilt, turn) ==
    /\ h_pc = "new"
    /\ now' = now + el
    /\ LET call == [kind |-> "start", q |-> _last_heading, dt |-> DefaultArg,
                    raw |-> raw,
                    mag |-> MagReadings[raw, h_mag_hard],
                    prev |-> h_out, elapsed |-> 0,
                    out |-> QMul(_last_heading, turn)]
       IN  /\ h_first' = Some([q |-> call.q, dt |-> call.dt, tilt |-> tilt])
           /\ h_last' = call
           /\ h_out' = Some(call.out)
           /\ _last_heading' = call.out
    /\ _last_reading' = now'
    /\ h_at' = [first |-> now', last |-> now']
    /\ _filter' = Some([Dt |-> FDivInt(FFromInt(READING_INTERVAL_MS), 1000,
                                       DoublePrec)])
    /\ h_pc' = "ticking"
    /\ UNCHANGED <<h_mag_hard, h_ticks, h_dt_sum, h_emits, h_emitted, h_err,
                   scaleVars, busVars, gyroVars, magVars, calVars, vecVars, t_pc,
                   avgVars, camVars, rdrVars, bitVars>>

\* HeadingReader.start when building a driver or the first reading raises:
\* the exception is printed and raised again
HeadingStartError(el) ==
    /\ h_pc = "new"
    /\ now' = now + el
    /\ h_pc' = "raised"
    /\ UNCHANGED <<h_mag_hard, _filter, _last_heading, _last_reading, h_ticks,
                   h_first, h_last, h_out, h_at, h_dt_sum, h_emits, h_emitted,
                   h_err, scaleVars, busVars, gyroVars, magVars, calVars, vecVars, t_pc,
                   avgVars, camVars, rdrVars, bitVars>>

\* update_heading, el milliseconds after the previous reading of the clock
UpdateHeading(el, raw, turn) ==
    /\ h_pc = "ticking"
    /\ h_ticks < MaxTicks
    /\ now' = now + el
    /\ LET dt   == measured_dt(now', _last_reading)
           call == [kind |-> "tick", q |-> _last_heading, dt |-> dt,
                    raw |-> raw,
                    mag |-> MagReadings[raw, h_mag_hard],
                    prev |-> h_out, elapsed |-> now' - h_at.last,
                    out |-> QMul(_last_heading, turn)]
       IN  /\ h_last' = call
           /\ h_out' = Some(call.out)
           /\ _last_heading' = StoredHeading(call.out)
           /\ h_dt_sum' = h_dt_sum + (IF dt.given THEN now' - _last_reading ELSE 0)
           /\ h_emitted' = Some(to_angles(QMul(_last_heading', FINAL_ROTATION)))
    /\ _last_reading' = now'
    /\ h_at' = [h_at EXCEPT !.last = now']
    /\ h_ticks' = h_ticks + 1
    /\ h_emits' = h_emits + 1
    /\ h_err' = [h_err EXCEPT !.last = FALSE]
    /\ UNCHANGED <<h_pc, h_mag_hard, _filter, h_first, scaleVars, busVars,
                   gyroVars, magVars, calVars, vecVars, t_pc, avgVars,
                   camVars, rdrVars, bitVars>>

\* update_heading when a bus read of take_reading raises OSError: nothing
\* catches it, so it leaves the slot; PyQt then either aborts the program
\* or, with an exception hook installed, lets the timer go on
UpdateHeadingBusError(el, aborts) ==
    /\ h_pc = "ticking"
    /\ h_ticks < MaxTicks
    /\ now' = now + el
    /\ h_ticks' = h_ticks + 1
    /\ h_err' = [last |-> TRUE, count |-> h_err.count + 1]
    /\ h_pc' = IF aborts THEN "aborted" ELSE "ticking"
    /\ UNCHANGED <<h_mag_hard, _filter, _last_heading, _last_reading, h_first,
                   h_last, h_out, h_at, h_dt_sum, h_emits, h_emitted,
                   scaleVars, busVars, gyroVars, magVars, calVars, vecVars, t_pc,
                   avgVars, camVars, rdrVars, bitVars>>

HeadNext ==
    \/ \E el \in Elapsed, raw \in MagRawVecs, tilt \in Tilts, turn \in FilterTurns :
           HeadingStart(el, raw, tilt, turn)
    \/ \E el \in Elapsed : HeadingStartError(el)
    \/ \E el \in Elapsed, raw \in MagRawVecs, turn \in FilterTurns :
           UpdateHeading(el, raw, turn)
    \/ \E el \in Elapsed, aborts \in BOOLEAN : UpdateHeadingBusError(el, aborts)

(***************************************************************************)
(* The two reader threads of main() and their calls on the bus.  Each      *)
(* reader opens its own SMBus(1) in start() on its own QThread; a call is  *)
(* one read or write of smbus2 on that handle.                             *)
(***************************************************************************)
Threads == {"heading", "range"}

LIDAR_REG_DIST == 0
LIDAR_REG_MODE == 35
LIDAR_REG_SAVE == 32
LIDAR_REG_REBOOT == 33
LIDAR_REG_TRIGGER == 36
LIDAR_REG_ENABLE == 37

Call(dev, op, reg) == [dev |-> dev, op |-> op, reg |-> reg]
\* set_register_bit as its two calls
SetBitCalls(dev, reg) == <<Call(dev, "read", reg), Call(dev, "write", reg)>>

\* HeadingReader.start: IMU(...), Magnometer(...), take_reading
HeadingStartCalls ==
    <<Call("imu", "read", WHO_AM_I_REG)>> \o SetBitCalls("imu", CTRL3_C)
    \o <<Call("imu", "read", CTRL3_C)>>
    \o SetBitCalls("imu", CTRL9_XL) \o SetBitCalls("imu", CTRL3_C)
    \o <<Call("imu", "write", CTRL1_XL), Call("imu", "write", CTRL2_G)>>
    \o <<Call("mag", "read", WHO_AM_I_REG)>> \o SetBitCalls("mag", CTRL_REG2)
    \o <<Call("mag", "read", CTRL_REG2)>> \o SetBitCalls("mag", CTRL_REG5)
    \o <<Call("mag", "write", CTRL_REG1), Call("mag", "write", CTRL_REG2),
         Call("mag", "write", CTRL_REG3), Call("mag", "write", CTRL_REG4)>>

\* take_reading: the gyroscope, accelerometer and magnetometer block reads
TakeReadingCalls ==
    <<Call("imu", "block_read", OUTX_L_G), Call("imu", "block_read", OUTX_L_A),
      Call("mag", "block_read", OUT_X_L)>>

\* RangeReader.start
RangeStartCalls ==
    <<Call("lidar", "write", LIDAR_REG_ENABLE), Call("lidar", "write", LIDAR_REG_MODE),
      Call("lidar", "write", LIDAR_REG_SAVE), Call("lidar", "write", LIDAR_REG_REBOOT)>>

\* on_reading_triggered, then on_data_ready
RangeReadingCalls ==
    <<Call("lidar", "write", LIDAR_REG_TRIGGER), Call("lidar", "block_read", LIDAR_REG_DIST)>>

\* What a thread calls once started, and then again and again
StartCalls(t) ==
    IF t = "heading" THEN HeadingStartCalls \o TakeReadingCalls ELSE RangeStartCalls
LoopCalls(t) == IF t = "heading" THEN TakeReadingCalls ELSE RangeReadingCalls
Script(t) == StartCalls(t) \o LoopCalls(t)

ThreadsOff == t_pc = [t \in Threads |-> [at |-> 0, inside |-> FALSE]]

\* main() has made the readers and their threads; no thread is started
ThreadsInit == t_pc = [t \in Threads |-> [at |-> 0, inside |-> FALSE]]

\* QThread.start: the reader's start() begins on its thread
ThreadStart(t) ==
    /\ t_pc[t].at = 0
    /\ t_pc' = [t_pc EXCEPT ![t] = [at |-> 1, inside |-> FALSE]]
    /\ UNCHANGED <<scaleVars, busVars, gyroVars, magVars, calVars, vecVars, headVars,
                   avgVars, camVars, rdrVars, bitVars>>

\* A thread enters its next bus call: nothing in the readers or the drivers
\* makes it wait for the other thread
CallBegin(t) ==
    /\ t_pc[t].at >= 1
    /\ ~t_pc[t].inside
    /\ t_pc' = [t_pc EXCEPT ![t].inside = TRUE]
    /\ UNCHANGED <<scaleVars, busVars, gyroVars, magVars, calVars, vecVars, headVars,
                   avgVars, camVars, rdrVars, bitVars>>

\* A thread's bus call returns
CallEnd(t) ==
    /\ t_pc[t].inside
    /\ t_pc' = [t_pc EXCEPT ![t] =
                   [at |-> IF t_pc[t].at = Len(Script(t))
                           THEN Len(StartCalls(t)) + 1 ELSE t_pc[t].at + 1,
                    inside |-> FALSE]]
    /\ UNCHANGED <<scaleVars, busVars, gyroVars, magVars, calVars, vecVars, headVars,
                   avgVars, camVars, rdrVars, bitVars>>

ThreadsNext ==
    \E t \in Threads : ThreadStart(t) \/ CallBegin(t) \/ CallEnd(t)

(***************************************************************************)
(* avg_quats of accel.py.  A Quaternion of the ahrs library is a versor:   *)
(* its constructor divides the four numbers it is given by their norm.     *)
(* The windows of the model hold the 24 unit quaternions whose components  *)
(* are all halves of integers: (+-1, 0, 0, 0) and its permutations, and    *)
(* (+-1/2, +-1/2, +-1/2, +-1/2).  A quaternion is written as the sequence  *)
(* of its four components doubled; every sum, difference and product that  *)
(* avg_quats takes of such numbers is exact in double precision, so the    *)
(* integers of the model are the floats of the program.                    *)
(***************************************************************************)
Comps == 1..4
\* The longest window
MaxWindow == 3
UnitQuats ==
    {q \in [Comps -> {-2, 0, 2}] : Cardinality({c \in Comps : q[c] # 0}) = 1}
        \cup [Comps -> {-1, 1}]

\* np.dot of two vectors (of doubled components: four times the dot product)
Dot(v, w) == v[1] * w[1] + v[2] * w[2] + v[3] * w[3] + v[4] * w[4]

\* The loop body with the quaternion added whatever the sign of the dot
\* product
AccumulatePlain(acc, q) == [c \in Comps |-> acc[c] + q[c]]

\* The loop body: accum -= q if np.dot(accum, q) < 0.0, else accum += q
Accumulate(acc, q) ==
    IF Dot(acc, q) < 0
    THEN [c \in Comps |-> acc[c] - q[c]]
    ELSE [c \in Comps |-> acc[c] + q[c]]

\* The greatest common divisor of the absolute values of the components of a
\* vector that is not zero
CommonDivisor(v) ==
    CHOOSE d \in 1..(2 * MaxWindow + 2) :
        /\ \A c \in Comps : v[c] % d = 0
        /\ \A e \in (d + 1)..(2 * MaxWindow + 2) : \E c \in Comps : v[c] % e # 0

\* Quaternion(accum): accum divided by its norm, a versor, written as the
\* shortest integer vector of its direction; of the zero vector the division
\* is 0/0 and the result is no rotation
NoRotation == [versor |-> FALSE]
Quaternion(v) ==
    IF \A c \in Comps : v[c] = 0
    THEN NoRotation
    ELSE [versor |-> TRUE,
          dir |-> [c \in Comps |-> v[c] \div CommonDivisor(v)]]

NotReturned == [returned |-> FALSE]

AvgOff ==
    /\ quats = <<>>
    /\ accum = <<0, 0, 0, 0>>
    /\ a_ret = [returned |-> TRUE, val |-> NoRotation]

\* avg_quats entered: accum = np.array([0.0, 0.0, 0.0, 0.0])
AvgInit ==
    /\ quats = <<>>
    /\ accum = <<0, 0, 0, 0>>
    /\ a_ret = NotReturned

\* One turn of the loop, for the next quaternion q of the window
AvgStep(q) ==
    /\ ~a_ret.returned
    /\ Len(quats) < MaxWindow
    /\ quats' = Append(quats, q)
    /\ accum' = Accumulate(accum, q)
    /\ UNCHANGED <<a_ret, scaleVars, busVars, gyroVars, magVars, calVars,
                   vecVars, headVars, t_pc, camVars, rdrVars, bitVars>>

\* The window is exhausted: return Quaternion(accum)
AvgReturn ==
    /\ ~a_ret.returned
    /\ a_ret' = [returned |-> TRUE, val |-> Quaternion(accum)]
    /\ UNCHANGED <<quats, accum, scaleVars, busVars, gyroVars, magVars,
                   calVars, vecVars, headVars, t_pc, camVars, rdrVars,
                   bitVars>>

AvgNext ==
    \/ \E q \in UnitQuats : AvgStep(q)
    \/ AvgReturn

(***************************************************************************)
(* CameraCapturer of chaoscope.py.  Its slots are called on the GUI thread *)
(* in the order the signals were emitted, each one running to its end      *)
(* before the next starts.                                                 *)
(***************************************************************************)
\* The largest counter the model lets a file get
MaxCounter == 4
\* The longest recording, in seconds
MaxRecSecs == 2

\* The decimal digits of n, the lowest last
RECURSIVE Decimal(_)
Decimal(n) == IF n < 10 THEN <<n>> ELSE Append(Decimal(n \div 10), n % 10)
\* f"{counter:06}": the decimal digits padded with zeros to six at least
RECURSIVE ZeroPad(_)
ZeroPad(ds) == IF Len(ds) >= 6 THEN ds ELSE ZeroPad(<<0>> \o ds)
Format06(counter) == ZeroPad(Decimal(counter))
\* int(text) of a text of decimal digits
RECURSIVE int(_)
int(text) ==
    IF text = <<>> THEN 0
    ELSE 10 * int(SubSeq(text, 1, Len(text) - 1)) + text[Len(text)]

_img_filename(counter) == <<"img_", Format06(counter), ".jpg">>
_vid_filename(counter) == <<"vid_", Format06(counter), ".mp4">>

NoText == <<"absent">>
\* _get_next_counter with the file's number returned as it is
_get_next_counter_same(file) ==
    int(IF file = NoText THEN Format06(0) ELSE file)

\* _get_next_counter: the file's number, or 0 if there is no file, plus one
_get_next_counter(file) ==
    int(IF file = NoText THEN Format06(0) ELSE file) + 1

\* _write_counter
_write_counter(counter) == Format06(counter)

NoName == <<"None">>
\* update_ui: what capture_label shows
update_ui(rec, vid, cap, img, secs) ==
    IF rec THEN <<"Rec", secs>>
    ELSE IF vid # NoName THEN vid
    ELSE IF cap THEN <<"Capturing...">>
    ELSE IF img # NoName THEN img
    ELSE <<"">>

CamOff ==
    /\ button = "up"
    /\ capturing = FALSE
    /\ recording = FALSE
    /\ job = FALSE
    /\ _timer = "none"
    /\ img_filename = NoName
    /\ vid_filename = NoName
    /\ counter_file = NoText
    /\ saved = <<>>
    /\ rec_secs = 0
    /\ capture_label = <<"">>

\* CameraCapturer.__init__; the counter file is absent or left by an earlier
\* run of the program
CamInit ==
    /\ button = "up"
    /\ capturing = FALSE
    /\ recording = FALSE
    /\ job = FALSE
    /\ _timer = "none"
    /\ img_filename = NoName
    /\ vid_filename = NoName
    /\ counter_file \in {NoText, Format06(0), Format06(2)}
    /\ saved = <<>>
    /\ rec_secs = 0
    /\ capture_label = <<"">>

\* The button goes down: on_button_pressed, which starts a capture unless
\* one is under way (_start_capture ends with _clear_timer)
ButtonPressed ==
    /\ button = "up"
    /\ button' = "down"
    /\ IF ~capturing
       THEN /\ capturing' = TRUE
            /\ job' = TRUE
            /\ _timer' = "none"
       ELSE UNCHANGED <<capturing, job, _timer>>
    /\ capture_label' = update_ui(recording, vid_filename, capturing',
                                  img_filename, rec_secs)
    /\ UNCHANGED <<recording, img_filename, vid_filename, counter_file, saved,
                   rec_secs, scaleVars, busVars, gyroVars, magVars, calVars,
                   vecVars, headVars, t_pc, avgVars, rdrVars, bitVars>>

\* The button has been down for hold_time: on_button_held, which starts a
\* recording unless one is running (_start_record takes the next counter,
\* writes it back, starts the encoder, and replaces the timer by one that
\* calls update_ui every 200 ms)
ButtonHeld ==
    /\ button = "down"
    /\ button' = "held"
    /\ IF ~recording
       THEN LET counter == _get_next_counter(counter_file)
            IN  /\ counter <= MaxCounter
                /\ recording' = TRUE
                /\ vid_filename' = _vid_filename(counter)
                /\ counter_file' = _write_counter(counter)
                /\ saved' = Append(saved, vid_filename')
                /\ rec_secs' = 0
                /\ _timer' = "update_ui"
       ELSE UNCHANGED <<recording, vid_filename, counter_file, saved, rec_secs,
                        _timer>>
    /\ capture_label' = update_ui(recording', vid_filename', capturing,
                                  img_filename, rec_secs')
    /\ UNCHANGED <<capturing, job, img_filename, scaleVars, busVars, gyroVars,
                   magVars, calVars, vecVars, headVars, t_pc, avgVars,
                   rdrVars, bitVars>>

\* The button goes up: on_button_released, which ends a running recording
\* (_finish_record ends with _start_timer: the timer is replaced by a
\* single-shot one that calls on_clear)
ButtonReleased ==
    /\ button \in {"down", "held"}
    /\ button' = "up"
    /\ IF recording
       THEN /\ recording' = FALSE
            /\ _timer' = "on_clear"
       ELSE UNCHANGED <<recording, _timer>>
    /\ capture_label' = update_ui(recording', vid_filename, capturing,
                                  img_filename, rec_secs)
    /\ UNCHANGED <<capturing, job, img_filename, vid_filename, counter_file,
                   saved, rec_secs, scaleVars, busVars, gyroVars, magVars,
                   calVars, vecVars, headVars, t_pc, avgVars, rdrVars,
                   bitVars>>

\* The capture request is done: on_capture_done, whose _finish_capture calls
\* on_completed_request (take the next counter, save the image under its
\* name, write the counter back), resets capturing and ends with
\* _start_timer
CaptureDone ==
    /\ job
    /\ LET counter == _get_next_counter(counter_file)
       IN  /\ counter <= MaxCounter
           /\ img_filename' = _img_filename(counter)
           /\ saved' = Append(saved, img_filename')
           /\ counter_file' = _write_counter(counter)
    /\ job' = FALSE
    /\ capturing' = FALSE
    /\ _timer' = "on_clear"
    /\ capture_label' = update_ui(recording, vid_filename, capturing',
                                  img_filename', rec_secs)
    /\ UNCHANGED <<button, recording, vid_filename, rec_secs, scaleVars,
                   busVars, gyroVars, magVars, calVars, vecVars, headVars,
                   t_pc, avgVars, rdrVars, bitVars>>

\* The single-shot timer fires: on_clear
TimerOnClear ==
    /\ _timer = "on_clear"
    /\ img_filename' = IF ~capturing THEN NoName ELSE img_filename
    /\ vid_filename' = IF ~recording THEN NoName ELSE vid_filename
    /\ _timer' = "none"
    /\ capture_label' = update_ui(recording, vid_filename', capturing,
                                  img_filename', rec_secs)
    /\ UNCHANGED <<button, capturing, recording, job, counter_file, saved,
                   rec_secs, scaleVars, busVars, gyroVars, magVars, calVars,
                   vecVars, headVars, t_pc, avgVars, rdrVars, bitVars>>

\* The periodic timer fires: update_ui
TimerUpdateUi ==
    /\ _timer = "update_ui"
    /\ capture_label' = update_ui(recording, vid_filename, capturing,
                                  img_filename, rec_secs)
    /\ UNCHANGED <<button, capturing, recording, job, _timer, img_filename,
                   vid_filename, counter_file, saved, rec_secs, scaleVars,
                   busVars, gyroVars, magVars, calVars, vecVars, headVars,
                   t_pc, avgVars, rdrVars, bitVars>>

\* A second of a recording goes by
RecordingSecond ==
    /\ recording
    /\ rec_secs < MaxRecSecs
    /\ rec_secs' = rec_secs + 1
    /\ UNCHANGED <<button, capturing, recording, job, _timer, img_filename,
                   vid_filename, counter_file, saved, capture_label,
                   scaleVars, busVars, gyroVars, magVars, calVars, vecVars,
                   headVars, t_pc, avgVars, rdrVars, bitVars>>

CamNext ==
    \/ ButtonPressed
    \/ ButtonHeld
    \/ ButtonReleased
    \/ CaptureDone
    \/ TimerOnClear
    \/ TimerUpdateUi
    \/ RecordingSecond

(***************************************************************************)
(* The readers of chaoscope.py: PowerReader, HeadingReader and RangeReader. *)
(* main() moves each to a QThread of its own; the thread's started signal  *)
(* calls start(), and the slots of a reader then run one after the other   *)
(* on its thread.  An exception that leaves a slot is caught by nothing:   *)
(* PyQt then either aborts the program or, with an exception hook          *)
(* installed, goes on with the next event.                                 *)
(***************************************************************************)
Readers == {"power", "heading", "range"}

\* The data-ready events taken to be on their way at one time
MaxInFlight == 2

MIN_DISTANCE_CM == 25
MAX_DISTANCE_CM == 800

\* reading.emit(0.0), reading.emit(-1.0), reading.emit(float(dist) / 100.0)
NoReading == FZero
Invalid == FNeg(FFromInt(1))
Metres(dist) == FDivInt(FFromInt(dist), 100, DoublePrec)

\* What read_i2c_block_data(LIDAR_I2C_ADDRESS, LIDAR_REG_DIST, 4) does:
\* it raises OSError, or returns four bytes, low byte first
BusFailure == [failed |-> TRUE, vals |-> <<>>]
Block(dist, amp) ==
    [failed |-> FALSE,
     vals |-> <<dist % 256, dist \div 256, amp % 256, amp \div 256>>]
LidarDists == {0, 24, 25, 800, 801}
LidarAmps == {99, 100, 65534, 65535}
LidarReads ==
    {BusFailure} \cup {Block(dist, amp) : dist \in LidarDists, amp \in LidarAmps}
MetresOf == [dist \in LidarDists |-> Metres(dist)]

\* on_data_ready with the early return left out, to compare with
on_data_ready_unguarded(reading, rd) ==
    IF rd.failed THEN Invalid
    ELSE LET dist == rd.vals[2] * 256 + rd.vals[1]
             amp == rd.vals[4] * 256 + rd.vals[3]
         IN  IF \/ dist < MIN_DISTANCE_CM
                \/ dist > MAX_DISTANCE_CM
                \/ amp < 100
                \/ amp >= 65535
             THEN Invalid
             ELSE MetresOf[dist]

\* on_data_ready with the bounds of the distance left out of the range, to
\* compare with
on_data_ready_exclusive(reading, rd) ==
    IF ~reading THEN NoReading
    ELSE IF rd.failed THEN Invalid
    ELSE LET dist == rd.vals[2] * 256 + rd.vals[1]
             amp == rd.vals[4] * 256 + rd.vals[3]
         IN  IF \/ dist <= MIN_DISTANCE_CM
                \/ dist >= MAX_DISTANCE_CM
                \/ amp < 100
                \/ amp >= 65535
             THEN Invalid
             ELSE MetresOf[dist]

\* What on_data_ready emits on the reading signal, is_reading being reading
\* and rd what the bus read does (the bus is read only if reading)
on_data_ready(reading, rd) ==
    IF ~reading THEN NoReading
    ELSE IF rd.failed THEN Invalid
    ELSE LET dist == rd.vals[2] * 256 + rd.vals[1]
             amp == rd.vals[4] * 256 + rd.vals[3]
         IN  IF \/ dist < MIN_DISTANCE_CM
                \/ dist > MAX_DISTANCE_CM
                \/ amp < 100
                \/ amp >= 65535
             THEN Invalid
             ELSE MetresOf[dist]

\* No on_data_ready has run
NotHandled ==
    [handled |-> FALSE, reading |-> FALSE, rd |-> BusFailure, out |-> NoReading,
     timer |-> <<"none", "none">>]
Handled(reading, rd, out, before, after) ==
    [handled |-> TRUE, reading |-> reading,
     rd |-> IF reading THEN rd ELSE BusFailure, out |-> out,
     timer |-> <<before, after>>]

\* How start() can end: PowerReader.start only makes its timer;
\* HeadingReader.start and RangeReader.start raise again what the bus or
\* the GPIO raised, RangeReader.start before or after _i2c is assigned
StartOutcomes(r) ==
    IF r = "power" THEN {"ok"}
    ELSE IF r = "heading" THEN {"ok", "raised"}
    ELSE {"ok", "raised", "no_bus"}

ReadersOff ==
    /\ proc = "running"
    /\ finish = FALSE
    /\ r_start = [r \in Readers |-> "new"]
    /\ r_timer = [r \in Readers |-> "none"]
    /\ r_stop = [r \in Readers |-> "no"]
    /\ r_finished = [r \in Readers |-> FALSE]
    /\ r_thread = [r \in Readers |-> "made"]
    /\ is_reading = FALSE
    /\ _i2c = FALSE
    /\ _gpio = FALSE
    /\ range_button = "up"
    /\ in_flight = 0
    /\ stopped_reading = FALSE
    /\ since_stop = {}
    /\ rd_failed = FALSE
    /\ dr_last = NotHandled

\* main() has made the readers and their threads and connected the signals
ReadersInit ==
    /\ proc = "running"
    /\ finish = FALSE
    /\ r_start = [r \in Readers |-> "new"]
    /\ r_timer = [r \in Readers |-> "none"]
    /\ r_stop = [r \in Readers |-> "no"]
    /\ r_finished = [r \in Readers |-> FALSE]
    /\ r_thread = [r \in Readers |-> "made"]
    /\ is_reading = FALSE
    /\ _i2c = FALSE
    /\ _gpio = FALSE
    /\ range_button = "up"
    /\ in_flight = 0
    /\ stopped_reading = FALSE
    /\ since_stop = {}
    /\ rd_failed = FALSE
    /\ dr_last = NotHandled

\* The slots of the range reader run while its thread's event loop does
RangeLoop == proc = "running" /\ r_thread["range"] = "running"

\* An exception leaves a slot
Unhandled(aborts) == proc' = IF aborts THEN "aborted" ELSE "running"

\* thread.start(): started calls start() on the reader's thread.  The timer
\* of the power and of the heading reader is started at once, the timer of
\* the range reader by on_start_reading.
ReaderStart(r, out, aborts) ==
    /\ proc = "running"
    /\ r_thread[r] = "made"
    /\ out \in StartOutcomes(r)
    /\ r_thread' = [r_thread EXCEPT ![r] = "running"]
    /\ r_start' = [r_start EXCEPT ![r] = IF out = "ok" THEN "ok" ELSE "raised"]
    /\ r_timer' = [r_timer EXCEPT ![r] =
                      IF out # "ok" THEN "none"
                      ELSE IF r = "range" THEN "idle" ELSE "active"]
    /\ IF r = "range"
       THEN _i2c' = (out # "no_bus") /\ _gpio' = (out = "ok")
       ELSE UNCHANGED <<_i2c, _gpio>>
    /\ IF out = "ok" THEN UNCHANGED proc ELSE Unhandled(aborts)
    /\ UNCHANGED <<finish, r_stop, r_finished, is_reading, range_button,
                   in_flight, stopped_reading, since_stop, rd_failed, dr_last>>
    /\ UNCHANGED <<scaleVars, busVars, gyroVars, magVars, calVars, vecVars, headVars,
                   t_pc, avgVars, camVars, bitVars>>

\* OverlayWindow.on_close or on_restart: finish.emit() queues stop() on the
\* thread of each reader
OverlayFinish ==
    /\ proc = "running"
    /\ ~finish
    /\ finish' = TRUE
    /\ r_stop' = [r \in Readers |-> "queued"]
    /\ UNCHANGED <<proc, r_start, r_timer, r_finished, r_thread, is_reading,
                   _i2c, _gpio, range_button, in_flight, stopped_reading,
                   since_stop, rd_failed, dr_last>>
    /\ UNCHANGED <<scaleVars, busVars, gyroVars, magVars, calVars, vecVars, headVars,
                   t_pc, avgVars, camVars, bitVars>>

\* stop() of a reader, on its thread after start(): self._timer.stop()
\* raises AttributeError when _timer is None; otherwise finished is emitted
\* and the finisher connected to it quits the thread
ReaderStop(r, aborts) ==
    /\ proc = "running"
    /\ r_thread[r] = "running"
    /\ r_stop[r] = "queued"
    /\ is_reading' = IF r = "range" THEN FALSE ELSE is_reading
    /\ IF r_timer[r] = "none"
       THEN /\ r_stop' = [r_stop EXCEPT ![r] = "raised"]
            /\ Unhandled(aborts)
            /\ UNCHANGED <<r_timer, r_finished, r_thread>>
       ELSE /\ r_stop' = [r_stop EXCEPT ![r] = "returned"]
            /\ r_timer' = [r_timer EXCEPT ![r] = "none"]
            /\ r_finished' = [r_finished EXCEPT ![r] = TRUE]
            /\ r_thread' = [r_thread EXCEPT ![r] = "quit"]
            /\ UNCHANGED proc
    /\ UNCHANGED <<finish, r_start, _i2c, _gpio, range_button, in_flight,
                   stopped_reading, since_stop, rd_failed, dr_last>>
    /\ UNCHANGED <<scaleVars, busVars, gyroVars, magVars, calVars, vecVars, headVars,
                   t_pc, avgVars, camVars, bitVars>>

\* The range button is pressed: on_start_reading calls on_reading_triggered,
\* whose write of the trigger register may raise (wr_ok is FALSE), then
\* on_data_ready, then starts the timer.  The lidar answers a trigger with
\* a data-ready event on the GPIO pin.
OnStartReading(wr_ok, rd, aborts) ==
    /\ RangeLoop
    /\ range_button = "up"
    /\ _gpio => in_flight < MaxInFlight
    /\ range_button' = "down"
    /\ stopped_reading' = FALSE
    /\ since_stop' = {}
    /\ is_reading' = TRUE
    /\ IF ~_i2c \/ ~wr_ok
       THEN /\ Unhandled(aborts)
            /\ rd_failed' = FALSE
            /\ UNCHANGED <<in_flight, dr_last, r_timer>>
       ELSE /\ in_flight' = IF _gpio THEN in_flight + 1 ELSE in_flight
            /\ rd_failed' = rd.failed
            /\ dr_last' = Handled(TRUE, rd, on_data_ready(TRUE, rd),
                                  r_timer["range"], r_timer["range"])
            /\ IF r_timer["range"] = "none"
               THEN Unhandled(aborts) /\ UNCHANGED r_timer
               ELSE /\ r_timer' = [r_timer EXCEPT !["range"] = "active"]
                    /\ UNCHANGED proc
    /\ UNCHANGED <<finish, r_start, r_stop, r_finished, r_thread, _i2c, _gpio>>
    /\ UNCHANGED <<scaleVars, busVars, gyroVars, magVars, calVars, vecVars, headVars,
                   t_pc, avgVars, camVars, bitVars>>

\* The range button is released: on_stop_reading
OnStopReading(aborts) ==
    /\ RangeLoop
    /\ range_button = "down"
    /\ range_button' = "up"
    /\ stopped_reading' = TRUE
    /\ since_stop' = {}
    /\ IF r_timer["range"] = "none"
       THEN Unhandled(aborts) /\ UNCHANGED <<r_timer, is_reading>>
       ELSE /\ r_timer' = [r_timer EXCEPT !["range"] = "idle"]
            /\ is_reading' = FALSE
            /\ UNCHANGED proc
    /\ UNCHANGED <<finish, r_start, r_stop, r_finished, r_thread, _i2c, _gpio,
                   in_flight, rd_failed, dr_last>>
    /\ UNCHANGED <<scaleVars, busVars, gyroVars, magVars, calVars, vecVars, headVars,
                   t_pc, avgVars, camVars, bitVars>>

\* The timer times out: on_reading_triggered
OnReadingTriggered(wr_ok, aborts) ==
    /\ RangeLoop
    /\ r_timer["range"] = "active"
    /\ in_flight < MaxInFlight
    /\ is_reading' = TRUE
    /\ IF wr_ok
       THEN in_flight' = in_flight + 1 /\ UNCHANGED proc
       ELSE Unhandled(aborts) /\ UNCHANGED in_flight
    /\ UNCHANGED <<finish, r_start, r_timer, r_stop, r_finished, r_thread, _i2c,
                   _gpio, range_button, stopped_reading, since_stop, rd_failed,
                   dr_last>>
    /\ UNCHANGED <<scaleVars, busVars, gyroVars, magVars, calVars, vecVars, headVars,
                   t_pc, avgVars, camVars, bitVars>>

\* A data-ready event of the GPIO pin reaches the reader: on_data_ready
OnDataReady(rd) ==
    /\ RangeLoop
    /\ in_flight > 0
    /\ in_flight' = in_flight - 1
    /\ UNCHANGED r_timer
    /\ LET out == on_data_ready(is_reading, rd)
       IN  /\ dr_last' = Handled(is_reading, rd, out,
                                 r_timer["range"], r_timer'["range"])
           /\ since_stop' = IF stopped_reading THEN since_stop \cup {out}
                            ELSE since_stop
    /\ rd_failed' = (rd_failed \/ (is_reading /\ rd.failed))
    /\ UNCHANGED <<proc, finish, r_start, r_stop, r_finished, r_thread,
                   is_reading, _i2c, _gpio, range_button, stopped_reading>>
    /\ UNCHANGED <<scaleVars, busVars, gyroVars, magVars, calVars, vecVars, headVars,
                   t_pc, avgVars, camVars, bitVars>>

ReadersNext ==
    \/ \E r \in Readers, out \in {"ok", "raised", "no_bus"}, aborts \in BOOLEAN :
           ReaderStart(r, out, aborts)
    \/ OverlayFinish
    \/ \E r \in Readers, aborts \in BOOLEAN : ReaderStop(r, aborts)
    \/ \E wr_ok \in BOOLEAN, rd \in LidarReads, aborts \in BOOLEAN :
           OnStartReading(wr_ok, rd, aborts)
    \/ \E aborts \in BOOLEAN : OnStopReading(aborts)
    \/ \E wr_ok \in BOOLEAN, aborts \in BOOLEAN : OnReadingTriggered(wr_ok, aborts)
    \/ \E rd \in LidarReads : OnDataReady(rd)

(***************************************************************************)
(* set_register_bit of I2CDevice, called by a user of the device on any of *)
(* its registers, for any bit of the byte and either value.                *)
(***************************************************************************)
\* The calls taken in one run
MaxBitCalls == 2

BitRegs == {CTRL3_C, CTRL9_XL}
\* What a register may hold before the calls: 0x00, 0x55, 0xAA, 0xFF
ByteSamples == {0, 85, 170, 255}
Bits == 0..7

NoBitCall == [made |-> FALSE]
BitCall(reg, bit, val, b) ==
    [made |-> TRUE, reg |-> reg, bit |-> bit, val |-> val, rf |-> b.rf,
     at |-> Len(b.lg)]

BitOff ==
    /\ sb_bus = Bus([r \in BitRegs |-> 0], <<>>)
    /\ sb_call = NoBitCall

BitInit ==
    /\ \E rf \in [BitRegs -> ByteSamples] : sb_bus = Bus(rf, <<>>)
    /\ sb_call = NoBitCall

\* A call of set_register_bit(reg, bit, val)
SetRegisterBit(reg, bit, val) ==
    /\ Len(sb_bus.lg) < 2 * MaxBitCalls
    /\ sb_call' = BitCall(reg, bit, val, sb_bus)
    /\ sb_bus' = set_register_bit(sb_bus, reg, bit, val)
    /\ UNCHANGED <<scaleVars, busVars, gyroVars, magVars, calVars, vecVars, headVars,
                   t_pc, avgVars, camVars, rdrVars>>

BitNext ==
    \E reg \in BitRegs, bit \in Bits, val \in BOOLEAN : SetRegisterBit(reg, bit, val)

(***************************************************************************)
(* Specifications.  Each one runs one part of the program from the states  *)
(* that part can start in, the other parts at rest.                        *)
(***************************************************************************)
\* The scaling functions on raw values
InitScale ==
    ScaleInit /\ BusOff /\ GyroOff /\ MagOff /\ CalOff /\ VecOff
    /\ HeadOff /\ ThreadsOff /\ AvgOff /\ CamOff /\ ReadersOff /\ BitOff
SpecScale == InitScale /\ [][ScaleNext]_vars

\* The construction of the two bus devices
InitBus ==
    BusInit /\ ScaleOff /\ GyroOff /\ MagOff /\ CalOff /\ VecOff
    /\ HeadOff /\ ThreadsOff /\ AvgOff /\ CamOff /\ ReadersOff /\ BitOff
SpecBus == InitBus /\ [][BusNext]_vars

\* The IMU driver in use: readings and gyroscope calibrations
InitGyro ==
    GyroInit /\ ScaleOff /\ BusOff /\ MagOff /\ CalOff /\ VecOff
    /\ HeadOff /\ ThreadsOff /\ AvgOff /\ CamOff /\ ReadersOff /\ BitOff
SpecGyro == InitGyro /\ [][GyroNext]_vars

\* The magnetometer driver in use: readings and calibrations
InitMag ==
    MagInit /\ ScaleOff /\ BusOff /\ GyroOff /\ CalOff /\ VecOff
    /\ HeadOff /\ ThreadsOff /\ AvgOff /\ CamOff /\ ReadersOff /\ BitOff
SpecMag == InitMag /\ [][MagNext]_vars

\* The calibration program and the main program, each run once
InitCal ==
    CalInit /\ ScaleOff /\ BusOff /\ GyroOff /\ MagOff /\ VecOff
    /\ HeadOff /\ ThreadsOff /\ AvgOff /\ CamOff /\ ReadersOff /\ BitOff
SpecCal == InitCal /\ [][CalNext]_vars

\* A device sampling, and its measurement vector being read
InitVec ==
    VecInit /\ ScaleOff /\ BusOff /\ GyroOff /\ MagOff /\ CalOff
    /\ HeadOff /\ ThreadsOff /\ AvgOff /\ CamOff /\ ReadersOff /\ BitOff
SpecVec == InitVec /\ [][VecNext]_vars

\* The heading reader from its construction on
InitHead ==
    HeadInit /\ ScaleOff /\ BusOff /\ GyroOff /\ MagOff /\ CalOff
    /\ VecOff /\ ThreadsOff /\ AvgOff /\ CamOff /\ ReadersOff /\ BitOff
SpecHead == InitHead /\ [][HeadNext]_vars

\* avg_quats on a window of unit quaternions
InitAvg ==
    AvgInit /\ ScaleOff /\ BusOff /\ GyroOff /\ MagOff /\ CalOff
    /\ VecOff /\ HeadOff /\ ThreadsOff /\ CamOff /\ ReadersOff /\ BitOff
SpecAvg == InitAvg /\ [][AvgNext]_vars

\* The capture button, the camera and the timers of CameraCapturer
InitCam ==
    CamInit /\ ScaleOff /\ BusOff /\ GyroOff /\ MagOff /\ CalOff
    /\ VecOff /\ HeadOff /\ ThreadsOff /\ AvgOff /\ ReadersOff /\ BitOff
SpecCam == InitCam /\ [][CamNext]_vars

\* The readers and their threads, from the end of main()'s set-up
InitReaders ==
    ReadersInit /\ ScaleOff /\ BusOff /\ GyroOff /\ MagOff /\ CalOff
    /\ VecOff /\ HeadOff /\ ThreadsOff /\ AvgOff /\ CamOff /\ BitOff
SpecReaders == InitReaders /\ [][ReadersNext]_vars

\* Calls of set_register_bit on a device's registers
InitBit ==
    BitInit /\ ScaleOff /\ BusOff /\ GyroOff /\ MagOff /\ CalOff /\ VecOff
    /\ HeadOff /\ ThreadsOff /\ AvgOff /\ CamOff /\ ReadersOff
SpecBit == InitBit /\ [][BitNext]_vars

\* The heading reader's and the range reader's threads on the bus
InitThreads ==
    ThreadsInit /\ ScaleOff /\ BusOff /\ GyroOff /\ MagOff /\ CalOff
    /\ VecOff /\ HeadOff /\ AvgOff /\ CamOff /\ ReadersOff /\ BitOff
SpecThreads == InitThreads /\ [][ThreadsNext]_vars

(***************************************************************************)
(* Claims about the bus devices, under SpecBus.                            *)
(***************************************************************************)
\* C1: constructing a bus device (IMU or Magnometer) reads the identity
\* register first; if the value read is not the device's expected identity,
\* construction raises and setup() never runs: the construction never gets
\* past the check, and no write (reset bit or configuration) is issued to
\* that device.
C1_IdentityMismatchIsFatal ==
    \A d \in Devices :
        /\ bus_log[d] # <<>> => bus_log[d][1] = RdOp(WHO_AM_I_REG, hw_id[d])
        /\ hw_id[d] # WHO_AM_I_VAL(d) =>
               /\ dev_pc[d] \in {"new", "raised"}
               /\ \A i \in 1..Len(bus_log[d]) : bus_log[d][i].op # "write"
        /\ (dev_pc[d] # "new" /\ hw_id[d] # WHO_AM_I_VAL(d)) => dev_pc[d] = "raised"

\* C1 witness: a device whose identity register held another value has been
\* constructed: the constructor raised after the one read
C1_Witness ==
    \E d \in Devices :
        /\ hw_id[d] # WHO_AM_I_VAL(d)
        /\ dev_pc[d] = "raised"
        /\ bus_log[d] = <<RdOp(WHO_AM_I_REG, hw_id[d])>>

(***************************************************************************)
(* Claims about the scaling functions, under SpecScale.                    *)
(***************************************************************************)
\* x is num/den to within floating-point rounding (a relative error of at
\* most 2^-50; the functions round two or three times to 53 bits):
\* |x * den - num| * 2^50 <= |num|
CloseTo(x, num, den) ==
    LET d == ExactAdd(ExactMul(x, FFromInt(den)), FFromInt(-num))
    IN  FLeq(FScale2(FAbs(d), 50), FAbs(FFromInt(num)))

\* val is what the claim asks of a raw value whose exact product with the
\* sensitivity is num/den, for the full-scale range scale
ScaledAsClaimed(val, num, den, scale) ==
    /\ (num <= scale * den /\ num >= -(scale * den)) => CloseTo(val, num, den)
    /\ num > scale * den => val = FFromInt(scale)
    /\ num < -(scale * den) => val = FFromInt(-scale)
    /\ FLeq(FFromInt(-scale), val) /\ FLeq(val, FFromInt(scale))
    /\ Saturate(val, scale) = val

\* C2: for every signed 16-bit raw value the accelerometer and gyroscope
\* scaling functions return raw x sensitivity (0.122/1000 g, 17.5/1000 deg/s
\* per LSB, to within float rounding) when that product is within the
\* full-scale range (4 g, 500 deg/s) and exactly +/- full scale when it is
\* beyond; the result is never outside the range, and saturating it again
\* changes nothing.
C2_ScalingSaturates ==
    /\ s_out.fn = "accel" =>
           ScaledAsClaimed(s_out.val, s_raw * 122, 1000000, accel_scale)
    /\ s_out.fn = "gyro" =>
           ScaledAsClaimed(s_out.val, s_raw * 175, 10000, gyro_scale)

\* C2 witness: a raw gyroscope value beyond full scale has been scaled, and
\* the result is the full-scale value
C2_Witness ==
    /\ s_out.fn = "gyro"
    /\ s_raw > GyroEdge
    /\ s_out.val = FFromInt(gyro_scale)

\* C3 (as claimed): the magnetometer scaling function returns microtesla:
\* raw / sensitivity * 100 within the full-scale range, and exactly +/- the
\* full-scale limit in microtesla (4 gauss = 400 uT) beyond it.
C3_MagScaledMicrotesla ==
    s_out.fn = "mag" =>
        /\ (s_raw <= MagEdge /\ s_raw >= -MagEdge) =>
               CloseTo(s_out.val, s_raw * 100, mag_sens)
        /\ s_raw > MagEdge => s_out.val = FFromInt(mag_scale * 100)
        /\ s_raw < -MagEdge => s_out.val = FFromInt(-(mag_scale * 100))

(***************************************************************************)
(* Claims about the IMU driver, under SpecGyro.                            *)
(***************************************************************************)
\* The clamped scaled values of a raw vector, before any bias is subtracted
ScaledRaw(raw) == [a \in Axes |-> _scale_raw_gyro(raw[a])]

\* The last call on the driver was a calibration that ran to its return
Calibrated == g_pc = "idle" /\ g_ret.kind = "calibrated"

\* The last call on the driver ended by raising, for the given cause
Raised(cause) ==
    g_pc = "idle" /\ g_ret.kind = "raised" /\ g_ret.cause = cause

\* C4: get_scaled_gyro returns, for each axis, the clamped scaled raw value
\* minus the driver's current bias component; once run_gyro_calibration has
\* completed, the bias held by the driver, and so subtracted in every later
\* reading, is exactly the vector that calibration returned, until the next
\* call of run_gyro_calibration.
C4_ReadingSubtractsBias ==
    /\ g_ret.kind = "reading" =>
           \A a \in Axes :
               g_ret.val[a] = FSub(ScaledRaw(g_ret.raw)[a], gyro_offset[a],
                                   DoublePrec)
    /\ g_cal_ret.set =>
           /\ gyro_offset = g_cal_ret.val
           /\ g_ret.kind = "reading" =>
                  \A a \in Axes :
                      g_ret.val[a] = FSub(ScaledRaw(g_ret.raw)[a],
                                          g_cal_ret.val[a], DoublePrec)

\* C4 witness: a reading taken after a completed calibration that returned a
\* non-zero bias
C4_Witness ==
    /\ g_cal_ret.set
    /\ g_cal_ret.val # ZeroVec
    /\ g_ret.kind = "reading"
    /\ g_ret.val # ScaledRaw(g_ret.raw)

\* m is the arithmetic mean of vals as far as two roundings to 53 bits
\* allow: |n * m - sum| * 2^51 <= |sum|, with n * m and the sum exact
MeanOf(m, vals) ==
    LET sum == ExactSum(vals, 1)
        d   == ExactAdd(ExactMul(FFromInt(Len(vals)), m), FNeg(sum))
    IN  FLeq(FScale2(FAbs(d), 51), FAbs(sum))

\* Every sample of the call is the same vector
ConstantStream == \A i \in 1..Len(xyz_vals) : xyz_vals[i] = xyz_vals[1]

\* n is a power of two
RECURSIVE IsPowerOfTwo(_)
IsPowerOfTwo(n) ==
    n = 1 \/ (n > 1 /\ n % 2 = 0 /\ IsPowerOfTwo(n \div 2))

\* C6 (as claimed): on a sample stream in which every sample is the same
\* vector c, of any size N >= 1, run_gyro_calibration returns exactly c.
C6_MeanOfConstantsExact ==
    (Calibrated /\ ConstantStream) => g_ret.val = xyz_vals[1]

\* C6 (amended): run_gyro_calibration sets and returns, for each axis, the
\* floating-point mean of the samples it took: their sum, rounded, divided
\* by their number, rounded again, which is the arithmetic mean to within a
\* relative error of 2^-51.  On a stream of N >= 1 samples that are all the
\* same vector c it returns exactly c when N is a power of two; for other N
\* a component may differ from c in its last bits.
C6_MeanOfSamples ==
    Calibrated =>
        /\ gyro_offset = g_ret.val
        /\ Len(xyz_vals) = num_samples /\ Len(xyz_vals) >= 1
        /\ \A a \in Axes : MeanOf(g_ret.val[a], AxisVals(xyz_vals, a))
        /\ (ConstantStream /\ IsPowerOfTwo(Len(xyz_vals))) =>
               g_ret.val = xyz_vals[1]

\* C6 witness: a calibration over three equal samples has returned a vector
\* that is not the sample
C6_Witness ==
    /\ Calibrated
    /\ ConstantStream
    /\ Len(xyz_vals) = 3
    /\ g_ret.val # xyz_vals[1]

\* C7: the samples accumulated by run_gyro_calibration are bias-uncorrected:
\* the bias held before the call is zero from before the first sample, each
\* sample is the clamped scaled raw vector itself, and the computed bias is
\* determined by the raw register stream alone, whatever bias the driver
\* held before the call.
C7_SamplesUncorrected ==
    /\ g_pc = "sampling" => gyro_offset = ZeroVec
    /\ (g_pc = "sampling" \/ Calibrated) =>
           /\ Len(g_raws) = Len(xyz_vals)
           /\ \A i \in 1..Len(xyz_vals) : xyz_vals[i] = ScaledRaw(g_raws[i])
    /\ Calibrated =>
           g_ret.val = [a \in Axes |->
                           fmean([i \in 1..Len(g_raws) |-> ScaledRaw(g_raws[i])[a]])]

\* C7 witness: a calibration called on a driver that held a non-zero bias
\* has completed over samples that were not all zero
C7_Witness ==
    /\ Calibrated
    /\ g_bias0 # ZeroVec
    /\ \E i \in 1..Len(xyz_vals) : xyz_vals[i] # ZeroVec

\* C8 (as claimed): the observer of run_gyro_calibration is fire-and-forget:
\* whatever the observer does when called, including failing, the call takes
\* its secs * hz samples, and stores and returns their mean.
C8_ObserverFireAndForget ==
    (g_pc = "idle" /\ g_args.obs /\ g_seen # <<>> /\ g_ret.kind # "reading"
        /\ ~Raised("bus")) =>
        /\ Len(xyz_vals) = num_samples
        /\ Calibrated
        /\ gyro_offset = [a \in Axes |-> fmean(AxisVals(xyz_vals, a))]

C26_BiasRestoredOnError ==
    [][(g_pc = "sampling" /\ g_pc' = "idle" /\ g_ret'.kind = "raised") =>
           gyro_offset' = g_bias0]_vars

(***************************************************************************)
(* Claims about the magnetometer driver, under SpecMag.                    *)
(***************************************************************************)
\* x is the exact value e to within the roundings of single precision:
\* |x - e| * 2^22 <= |e|
CloseToExact(x, e) ==
    FLeq(FScale2(FAbs(ExactAdd(x, FNeg(e))), 22), FAbs(e))

\* C5: get_scaled_mag returns (scaled - hard_offsets) multiplied as a row
\* vector on the left of the 3x3 soft_offsets matrix: component j is the sum
\* over i of (scaled[i] - hard_offsets[i]) * soft_offsets[i][j], to within
\* float rounding; a driver constructed without calibration arguments holds
\* a zero hard offset and the identity soft matrix, and returns the scaled
\* vector unchanged.
C5_CorrectedReading ==
    /\ m_ret.kind = "reading" =>
           /\ m_ret.scaled = [a \in Axes |->
                                 FRound(_scale_raw_mag(m_ret.raw[a]), SinglePrec)]
           /\ \A j \in Axes :
                  CloseToExact(m_ret.val[j],
                      ExactDot([i \in Axes |->
                                   ExactAdd(m_ret.scaled[i], FNeg(hard_offsets[i]))],
                               [i \in Axes |-> soft_offsets[i][j]]))
    /\ ~m_ctor.hard => hard_offsets = ZeroVec
    /\ ~m_ctor.soft =>
           \A i, j \in Axes :
               soft_offsets[i][j] = IF i = j THEN FFromInt(1) ELSE FZero
    /\ (m_ret.kind = "reading" /\ ~m_ctor.hard /\ ~m_ctor.soft) =>
           m_ret.val = m_ret.scaled

\* C5 witness: a reading has been corrected with a non-zero hard offset and
\* a soft matrix that is not symmetric
C5_Witness ==
    /\ m_ret.kind = "reading"
    /\ hard_offsets # ZeroVec
    /\ soft_offsets[1][2] # soft_offsets[2][1]
    /\ m_ret.val # m_ret.scaled

\* C9 (as claimed): if the ellipsoid fit yields a matrix M that is singular
\* or not positive-definite, run_mag_calibration ends with an error: the
\* hard and soft offsets keep the values they had before the call and no
\* calibration record is returned.
C9_BadFitFails ==
    (m_ret.kind \in {"calibrated", "raised"} /\ ~m_fit.raised
        /\ (Singular(m_fit.M) \/ ~PositiveDefinite(m_fit.M))) =>
        /\ m_ret.kind = "raised"
        /\ hard_offsets = m_before.hard
        /\ soft_offsets = m_before.soft

\* C19: the samples run_mag_calibration collects are scaled but uncorrected:
\* each is the float32 of _scale_raw_mag of the raw vector read, with neither
\* the hard nor the soft offsets held before the call applied; the
\* calibration it computes and returns is that of the fit of these samples
\* and of the expected field magnitude, so for the same raw stream and field
\* magnitude it does not depend on the offsets held before.
C19_SamplesUncorrected ==
    /\ m_data = [idx \in 1..Len(m_raws) |->
                    [a \in Axes |->
                        FRound(_scale_raw_mag(m_raws[idx][a]), SinglePrec)]]
    /\ m_ret.kind = "calibrated" =>
           /\ m_ret.hard_offsets = HardIron(m_fit)
           /\ m_ret.soft_offsets = Diag(SoftIron(m_fit, mag_field))
           /\ m_ret.mag_field = mag_field
           /\ hard_offsets = m_ret.hard_offsets
           /\ soft_offsets = m_ret.soft_offsets

\* C19 witness: a calibration has completed over samples of a driver that
\* held a non-zero hard offset and a soft matrix other than the identity,
\* which would have changed a sample had they been applied
C19_Witness ==
    /\ m_ret.kind = "calibrated"
    /\ m_before.hard # ZeroVec
    /\ m_before.soft # Eye3
    /\ \E idx \in 1..Len(m_data) :
           _get_corrected_mag_array(m_data[idx], m_before.hard, m_before.soft,
                                    SinglePrec) # m_data[idx]

\* An ellipsoid given by a hard offset b, a soft matrix A and a field
\* magnitude F is the set of the points s with |(s - b) @ A| = F, that is
\* (s - b) A A^T (s - b)^T = F^2.  The ellipsoids below have integer b, A
\* and F: a sphere, an ellipsoid with a diagonal A, and the same ellipsoid
\* with A turned by a quarter about z, for each field magnitude.
RowByRow(A) ==
    [i \in Axes |-> [j \in Axes |->
        A[i][1] * A[j][1] + A[i][2] * A[j][2] + A[i][3] * A[j][3]]]
KnownEllipsoids ==
    UNION {{[b |-> <<0, 0, 0>>, F |-> F,
             A |-> <<<<F, 0, 0>>, <<0, F, 0>>, <<0, 0, F>>>>],
            [b |-> <<-2, 3, 0>>, F |-> F,
             A |-> <<<<F, 0, 0>>, <<0, F \div 2, 0>>, <<0, 0, F>>>>],
            [b |-> <<-2, 3, 0>>, F |-> F,
             A |-> <<<<0, -F, 0>>, <<F \div 2, 0, 0>>, <<0, 0, F>>>>]} :
           F \in {DefaultMagField, 48}}

\* fit is the quadric s M s^T + 2 n s^T + d = 0 of the ellipsoid e, up to a
\* positive factor: M ~ A A^T, n ~ -M b, d ~ b M b^T - F^2
IsQuadricOf(fit, e) ==
    LET Me == RowByRow(e.A)
        Mb == [i \in Axes |-> Me[i][1] * e.b[1] + Me[i][2] * e.b[2]
                                  + Me[i][3] * e.b[3]]
        bMb == e.b[1] * Mb[1] + e.b[2] * Mb[2] + e.b[3] * Mb[3]
    IN  /\ ~fit.raised
        /\ fit.M[1] > 0
        /\ \A i, j \in Axes : i # j => Me[i][j] = 0
        /\ \A a \in Axes :
               /\ fit.M[a] * Me[1][1] = Me[a][a] * fit.M[1]
               /\ fit.n[a] * Me[1][1] = -Mb[a] * fit.M[1]
        /\ fit.d * Me[1][1] = (bMb - e.F * e.F) * fit.M[1]

\* The last call was a calibration whose fit returned the quadric of e, by a
\* driver whose expected field magnitude is that of e
CalibratedOn(e) ==
    /\ m_ret.kind = "calibrated"
    /\ IsQuadricOf(m_fit, e)
    /\ mag_field = FFromInt(e.F)

IntVec(v) == [a \in Axes |-> FFromInt(v[a])]
IntMat(A) == [i \in Axes |-> IntVec(A[i])]
IsSymmetric(A) == \A i, j \in Axes : A[i][j] = A[j][i]

C10_PersistLoadRoundTrip ==
    (cal_file # NoFile /\ main_pc \in {"reading", "start_raised"}) =>
        LET mag == Item(cal_file, "magnometer")
        IN  /\ hr_imu = Some(Numbers(Item(cal_file, "gyroscope").v))
            /\ hr_mag.set
            /\ hr_mag.val.hard = Float32Vec(Numbers(Item(mag, "hard_offsets").v))
            /\ hr_mag.val.soft =
                   [i \in Axes |->
                       Float32Vec(Numbers(Item(mag, "soft_offsets").v[i].v))]
            /\ hr_mag.val.field = Item(mag, "mag_field").v

\* C20 (as claimed): a calibration run with responsive devices and a
\* non-degenerate magnetometer sample cloud performs the gyroscope
\* calibration, then the magnetometer calibration, terminates, and writes a
\* calibration file holding both the gyroscope bias and the magnetometer
\* record; the file is written only after every step has succeeded.
C20_CalibrationRunWritesFile ==
    c_pc # "start" =>
        /\ c_pc = "written"
        /\ cal_file # NoFile
        /\ Item(cal_file, "gyroscope") = NumList(c_gyro.val)
        /\ Item(cal_file, "magnometer").keys =
               <<"hard_offsets", "soft_offsets", "mag_field">>

(***************************************************************************)
(* Claims about the reset step, under SpecBus.                             *)
(***************************************************************************)
\* C16 (as claimed): the reset step of device construction polls the reset
\* bit at most a bounded number of times: once MaxPolls polls have read the
\* bit set and it is still set, construction has failed with a
\* device-unresponsive error.
C16_ResetPollsBounded ==
    \A d \in Devices :
        (polls[d] >= MaxPolls /\ RegBit(regs[d][ResetReg(d)], ResetBit(d)) = 1) =>
            dev_pc[d] = "raised"

(***************************************************************************)
(* Claims about measurement vectors, under SpecVec.                        *)
(***************************************************************************)
\* C17: get_measurement_vector obtains the 6 bytes of a measurement in one
\* block-read transaction starting at the given register and decodes them
\* as three little-endian two's-complement 16-bit values (x from bytes 0-1,
\* y from bytes 2-3, z from bytes 4-5); each component is in
\* [-32768, 32767], and x, y and z come from the same transaction.
C17_VectorDecoded ==
    v_ret.kind = "vector" =>
        /\ v_ret.reads = 1
        /\ Len(v_ret.values) = 6
        /\ v_ret.reg = v_reg
        /\ \A a \in Axes :
               LET lo == v_ret.values[2 * a - 1]
                   hi == v_ret.values[2 * a]
               IN  /\ v_ret.val[a] \in INT16_MIN..INT16_MAX
                   /\ (v_ret.val[a] - (lo + 256 * hi)) \in {0, -65536}
                   /\ v_ret.val[a] < 0 <=> hi >= 128

\* C17 witness: a vector has been read whose x is negative, whose y is
\* positive and whose bytes differ within an axis
C17_Witness ==
    /\ v_ret.kind = "vector"
    /\ v_ret.val[1] < 0
    /\ v_ret.val[2] > 0
    /\ v_ret.values[3] # v_ret.values[4]

(***************************************************************************)
(* Claims about the heading reader, under SpecHead.                        *)
(***************************************************************************)
\* C11 (as claimed): the orientation filter leaves the Uninitialized state
\* on the first fused update, and the quaternion passed into that first
\* update is the tilt-only estimate of the first accelerometer and
\* magnetometer reading, not a fixed default quaternion.
C11_FirstUpdateSeededByTilt ==
    h_first.set => (_filter.set /\ h_first.val.q = h_first.val.tilt)

\* C12 (as claimed): every filter update step is given as dt the measured
\* time elapsed since the previous update, never the fixed nominal interval.
C12_EveryUpdateMeasuredDt ==
    h_last.kind # "none" => h_last.dt.given

\* C12 (amended): every filter update made on a timer tick is given as dt
\* the measured time elapsed since the previous update, and the stored
\* previous-update timestamp is advanced to the reading time of every
\* update, so the dt of the ticks add up to the time elapsed since the
\* first update; the first update, made by start, is given no dt and runs
\* with the filter's nominal Dt = READING_INTERVAL_MS / 1000.
C12_TickMeasuredDt ==
    /\ h_last.kind = "tick" =>
           /\ h_last.dt.given
           /\ h_last.dt.val = FDivInt(FFromInt(h_last.elapsed * 1000), 1000000,
                                      DoublePrec)
    /\ h_last.kind = "start" =>
           /\ ~h_last.dt.given
           /\ CloseTo(_filter.val.Dt, READING_INTERVAL_MS, 1000)
    /\ h_last.kind # "none" =>
           /\ _last_reading = h_at.last
           /\ h_dt_sum = h_at.last - h_at.first

\* C12 witness: two ticks have been handled after start, of different
\* measured intervals
C12_Witness ==
    /\ h_last.kind = "tick"
    /\ h_err.count = 0
    /\ h_ticks = 2
    /\ h_dt_sum # 2 * h_last.elapsed

\* C13 (as claimed): the magnetometer vector handed to the orientation
\* filter is in microtesla: from raw register value to filter input the
\* gauss reading raw / 6842 is multiplied by 100 exactly once (shown for a
\* reader without hard offsets, whose correction changes nothing).
C13_FilterMagMicrotesla ==
    (h_last.kind # "none" /\ h_mag_hard = ZeroVec) =>
        \A a \in Axes :
            LET raw == h_last.raw[a]
            IN  /\ (raw <= MagEdge /\ raw >= -MagEdge) =>
                       CloseToExact(h_last.mag[a],
                                    FDivInt(FFromInt(raw * 100), mag_sens, DoublePrec))
                /\ raw > MagEdge => h_last.mag[a] = FFromInt(mag_scale * 100)
                /\ raw < -MagEdge => h_last.mag[a] = FFromInt(-(mag_scale * 100))

\* C14 (as claimed): if a bus read fails during a fusion tick, the heading
\* reader emits a sentinel invalid reading for that tick instead of letting
\* the error escape, and the tick timer keeps running.
C14_BusErrorEmitsSentinel ==
    h_err.last => (h_emits = h_ticks /\ h_pc = "ticking")

C15_BusMutualExclusion ==
    ~(t_pc["heading"].inside /\ t_pc["range"].inside)

(***************************************************************************)
(* Claims about avg_quats, under SpecAvg.                                  *)
(***************************************************************************)
\* C22: avg_quats adds each quaternion of the window to the running sum with
\* the sign that makes its dot product with the running sum non-negative, so
\* after any non-empty sequence of unit quaternions the accumulated sum is
\* not the zero vector and a versor is returned; for the window [q, -q] the
\* sum is 2q, which Quaternion() normalises to q.
C22_SumNeverZero ==
    /\ quats # <<>> =>
           /\ accum # <<0, 0, 0, 0>>
           /\ a_ret.returned => a_ret.val.versor
    /\ (Len(quats) = 2 /\ quats[2] = [c \in Comps |-> -quats[1][c]]) =>
           /\ accum = [c \in Comps |-> 2 * quats[1][c]]
           /\ a_ret.returned => a_ret.val = Quaternion(quats[1])

\* C22 witness: avg_quats has returned for a window [q, -q]
C22_Witness ==
    /\ a_ret.returned
    /\ Len(quats) = 2
    /\ quats[2] = [c \in Comps |-> -quats[1][c]]
    /\ a_ret.val.versor

(***************************************************************************)
(* Claims about CameraCapturer, under SpecCam.                             *)
(***************************************************************************)
\* C24 (as claimed): while a video recording is in progress, the periodic
\* timer the recording started, which refreshes the display, stays active
\* until the button is released, in every interleaving of button press,
\* button hold, photo-capture completion and clear-timer events.
C24_RefreshTimerWhileRecording ==
    recording => _timer = "update_ui"

\* The counter in a file name
CounterOf(name) == int(name[2])

\* C29: across any sequence and interleaving of photo-capture completions
\* and starts of a recording, every saved file gets a counter strictly
\* greater than every counter issued before it, so no two saved photos or
\* videos share a counter or a file name; the counter file holds the last
\* counter issued.
C29_CountersStrictlyIncrease ==
    /\ \A i, j \in 1..Len(saved) :
           i < j => /\ CounterOf(saved[i]) < CounterOf(saved[j])
                    /\ saved[i] # saved[j]
    /\ saved # <<>> =>
           counter_file = Format06(CounterOf(saved[Len(saved)]))

\* C29 witness: a recording was started while a capture was under way, the
\* capture then completed, and a later capture completed as well
C29_Witness ==
    /\ Len(saved) >= 3
    /\ saved[1][1] = "vid_"
    /\ saved[2][1] = "img_"
    /\ saved[3][1] = "img_"

(***************************************************************************)
(* Claims about the readers, under SpecReaders.                            *)
(***************************************************************************)
\* C25 (as claimed): after the overlay window signals finish, every reader
\* (power, heading, range) emits finished and its thread quits, also when
\* its start() raised and its timer was never created.  finished is emitted
\* by stop() alone, so: once a reader's stop() has run, the reader has
\* emitted finished and its thread has quit.
C25_StopEmitsFinished ==
    \A r \in Readers :
        r_stop[r] \in {"returned", "raised"} =>
            r_finished[r] /\ r_thread[r] = "quit"

\* C27: after on_stop_reading and until the next on_start_reading, every
\* reading the range reader emits is the no-reading value 0.0, also when
\* the data-ready event of a trigger issued before the stop is delivered
\* after it.
C27_NoDistanceAfterStop ==
    stopped_reading => since_stop \subseteq {NoReading}

\* C27 witness: the reader started, the button was released with a
\* data-ready event still on its way, and the event has been delivered
C27_Witness ==
    /\ r_start["range"] = "ok"
    /\ stopped_reading
    /\ since_stop = {NoReading}
    /\ dr_last.handled /\ ~dr_last.reading

\* C28: when a data-ready event reaches the range reader while ranging is
\* active: a failed bus read emits -1.0 and leaves the trigger timer and
\* is_reading as they were, so that later ticks produce readings; a
\* successful read emits distance / 100 if
\* 25 <= distance <= 800 and 100 <= amplitude < 65535, and -1.0 in every
\* other case.
C28_InvalidOrMetres ==
    /\ (dr_last.handled /\ dr_last.reading) =>
           /\ dr_last.timer[2] = dr_last.timer[1]
           /\ dr_last.rd.failed => dr_last.out = Invalid
           /\ ~dr_last.rd.failed =>
                  LET dist == dr_last.rd.vals[1] + 256 * dr_last.rd.vals[2]
                      amp == dr_last.rd.vals[3] + 256 * dr_last.rd.vals[4]
                  IN  dr_last.out =
                          IF 25 <= dist /\ dist <= 800 /\ 100 <= amp /\ amp < 65535
                          THEN MetresOf[dist] ELSE Invalid
    /\ (rd_failed /\ range_button = "down" /\ r_start["range"] = "ok"
            /\ r_stop["range"] # "returned") =>
           is_reading

\* C28 witness: a bus read failed during a ranging, and a later data-ready
\* event of the same ranging has emitted a distance
C28_Witness ==
    /\ rd_failed
    /\ range_button = "down"
    /\ r_timer["range"] = "active"
    /\ dr_last.handled /\ dr_last.reading /\ ~dr_last.rd.failed
    /\ dr_last.out = MetresOf[800]
    /\ dr_last.out # Invalid /\ dr_last.out # NoReading

(***************************************************************************)
(* Claims about set_register_bit, under SpecBit.                           *)
(***************************************************************************)
\* C30: set_register_bit(reg, bit, val) reads reg and writes back to reg the
\* byte it read with only the given bit forced to val: the other seven bits
\* are unchanged, the written value is within 0..255, and no other register
\* is written.
C30_OnlyTheBitChanges ==
    sb_call.made =>
        LET rd == sb_bus.lg[sb_call.at + 1]
            wr == sb_bus.lg[sb_call.at + 2]
        IN  /\ Len(sb_bus.lg) = sb_call.at + 2
            /\ rd = RdOp(sb_call.reg, sb_call.rf[sb_call.reg])
            /\ wr.op = "write" /\ wr.reg = sb_call.reg
            /\ wr.val \in 0..255
            /\ RegBit(wr.val, sb_call.bit) = (IF sb_call.val THEN 1 ELSE 0)
            /\ \A k \in Bits \ {sb_call.bit} :
                   RegBit(wr.val, k) = RegBit(rd.val, k)
            /\ sb_bus.rf[sb_call.reg] = wr.val
            /\ \A r \in BitRegs \ {sb_call.reg} : sb_bus.rf[r] = sb_call.rf[r]

\* C30 witness: a call has cleared a bit that was set in a register whose
\* other bits are not all alike, and the other register holds what it held
C30_Witness ==
    /\ sb_call.made
    /\ ~sb_call.val
    /\ sb_call.rf[sb_call.reg] = 170
    /\ RegBit(sb_call.rf[sb_call.reg], sb_call.bit) = 1
    /\ sb_bus.rf[sb_call.reg] = 170 - 2^sb_call.bit

====
